---- MODULE Spec2Model ----
(***************************************************************************)
(* The paper-trading engine of smart-ai-broker: the record store (users,  *)
(* accounts, auto-trade configs, tickers, price ticks, portfolios,        *)
(* trades), the ledger operations execute_buy / execute_sell run inside   *)
(* a SQLAlchemy Session, the API handlers that call them, the scheduler's *)
(* bootstrap (tickers, historical backfill), its price-tick job and its   *)
(* auto-trading cycle.                                                    *)
(*                                                                         *)
(* Conventions.                                                            *)
(*  - Money is an exact integer number of cents (the code stores Python    *)
(*    floats; IEEE rounding error is not modelled).  avg_price, which the  *)
(*    code obtains by a float division, is an exact rational <<n, d>> in   *)
(*    lowest terms.                                                        *)
(*  - The store is a READ COMMITTED database: every statement sees what is *)
(*    committed at that moment; a commit writes the session's changed      *)
(*    objects as absolute values (the ORM emits UPDATE ... SET col=value). *)
(*  - A Session keeps the objects it has loaded in its identity map and    *)
(*    does not refresh their attributes on a later query; commit and       *)
(*    rollback expire them.                                                *)
(*  - Spec runs one API request or one scheduler job at a time;            *)
(*    SpecConc lets the API process and the scheduler's jobs interleave    *)
(*    statement by statement.                                              *)
(***************************************************************************)
EXTENDS Integers, Sequences, FiniteSets, TLC

(* ------------------------------ bounds -------------------------------- *)
\* longest trade log explored
MaxTrades == 2
\* live ticks the price-tick job may add
MaxTicks == 1
\* minutes of history the backfill covers, end_time - start_time (the code:
\* HISTORICAL_MONTHS * 30 days)
HistSpan == 10
\* auto-trading cycles explored
MaxCycles == 1
\* auto-trading cycles explored when the cycle is studied on its own
AutoCycles == 2
\* starts of the scheduler process explored when the simulator is studied
\* on its own
MaxStarts == 2

(* ------------------------- program constants -------------------------- *)
\* Account(cash_balance=10000.0), in cents
INITIAL_CASH == 1000000
\* max(..., 1.0): the price floor, in cents
MIN_PRICE == 100
\* BASE_VOLATILITY = 0.02 and VOLATILITY_RANGE = 0.005, in 1/1000
BASE_VOLATILITY == 20
VOLATILITY_RANGE == 5
\* last_price * 0.001 * trend, in 1/1000
MOMENTUM_FACTOR == 1
\* confidence_threshold=0.7 (in 1/100) and max_trade_size=5 at registration
DEFAULT_THRESHOLD == 70
DEFAULT_MAX_TRADE_SIZE == 5
\* BATCH_SIZE = 1000 in the code; scaled down with HistSpan
BATCH_SIZE == 2
\* minutes between two points of the backfill
HISTORICAL_INTERVAL_MINUTES == 5
\* the points of a complete backfill of one ticker
HistPoints == HistSpan \div HISTORICAL_INTERVAL_MINUTES + 1
\* the timestamps of a complete backfill that started at start_time
HistTimes(start_time) ==
  [k \in 1..HistPoints |-> start_time + (k - 1) * HISTORICAL_INTERVAL_MINUTES]
\* get_technical_indicators reads the 100 latest price ticks
LIMIT == 100
\* the longest price series given to the indicator engine, LIMIT and
\* LIMIT + 1 apart
MaxSeriesLen == 51

\* the user ids, in row order
UserOrder == <<"u1", "u2">>
Users == {UserOrder[i] : i \in 1..Len(UserOrder)}
\* two of the ten TICKERS_INIT entries, in their order
TickerOrder == <<"TSLA", "NVDA">>
TickerSet == {TickerOrder[i] : i \in 1..Len(TickerOrder)}
InitialPrice(t) == IF t = "TSLA" THEN 25000 ELSE 50000

\* request inputs explored.  Registrations: the user and whether the second
\* commit of register (account and config) happens.  ConfigUpdates: the
\* optional fields of AutoTradeConfigUpdate, {} for a field left out.
Quantities == {1, 20, 21}
Registrations == {<<"u1", TRUE>>, <<"u2", FALSE>>}
ConfigUpdates ==
  { [enabled |-> {TRUE}, confidence_threshold |-> {}, max_trade_size |-> {}],
    [enabled |-> {}, confidence_threshold |-> {80}, max_trade_size |-> {20}] }
\* what the advisory source (or the fallback) may answer
Signals ==
  { [action |-> "BUY", confidence |-> 80],
    [action |-> "BUY", confidence |-> 75],
    [action |-> "SELL", confidence |-> 80],
    [action |-> "HOLD", confidence |-> 50] }
\* random draws explored: volatility (1/1000), direction, momentum kick.
\* The ledger specifications keep the backfilled path flat and let a live
\* tick move the price up.
FlatDraw == [vol |-> BASE_VOLATILITY, dir |-> 0, mom |-> FALSE]
UpDraw == [vol |-> BASE_VOLATILITY + VOLATILITY_RANGE, dir |-> 1, mom |-> TRUE]
BackfillDraws == {FlatDraw}
TickDraws == {UpDraw}
\* The simulator on its own is explored with the extreme draws: the largest
\* and the smallest volatility, direction -1, 0 and 1, with and without the
\* momentum kick
SimDraws ==
  { [vol |-> BASE_VOLATILITY + VOLATILITY_RANGE, dir |-> -1, mom |-> TRUE],
    [vol |-> BASE_VOLATILITY + VOLATILITY_RANGE, dir |-> -1, mom |-> FALSE],
    [vol |-> BASE_VOLATILITY + VOLATILITY_RANGE, dir |-> 1, mom |-> TRUE],
    [vol |-> BASE_VOLATILITY, dir |-> 0, mom |-> TRUE] }
\* the backfill has no momentum kick: its largest fall and its smallest rise
SimBackfillDraws ==
  { [vol |-> BASE_VOLATILITY + VOLATILITY_RANGE, dir |-> -1, mom |-> FALSE],
    [vol |-> BASE_VOLATILITY - VOLATILITY_RANGE, dir |-> 1, mom |-> FALSE] }
\* latest prices (cents) a long falling run leaves: at the floor and just
\* above it
SeedPrices == {100, 103}

(* ----------------------------- arithmetic ----------------------------- *)
Abs(x) == IF x < 0 THEN -x ELSE x
Min(a, b) == IF a <= b THEN a ELSE b
Max(a, b) == IF a >= b THEN a ELSE b

RECURSIVE Gcd(_, _)
Gcd(a, b) == IF b = 0 THEN a ELSE Gcd(b, a % b)

\* the rational n/d (d > 0) in lowest terms
Rat(n, d) == LET g == Gcd(Abs(n), d) IN IF g = 0 THEN <<0, 1>> ELSE <<n \div g, d \div g>>
RatOfInt(n) == <<n, 1>>

\* round(x, 2) of a non-negative amount x = r[1]/r[2] cents: to the nearest
\* cent, ties to even
RoundCents(r) ==
  LET q == r[1] \div r[2]
      rem2 == 2 * (r[1] % r[2])
  IN IF rem2 < r[2] THEN q
     ELSE IF rem2 > r[2] THEN q + 1
     ELSE IF q % 2 = 0 THEN q ELSE q + 1

(* ------------------------------- state -------------------------------- *)
VARIABLES
  users,        \* users rows: the registered user ids
  accounts,     \* accounts rows: user_id -> cash_balance
  configs,      \* auto_trade_configs rows: user_id -> config
  tickers,      \* tickers rows: the symbols created
  price_ticks,  \* price_ticks rows per ticker: the price column, in
                \* insertion order
  price_times,  \* price_ticks rows per ticker: the timestamp column, in
                \* minutes, in the same order
  portfolios,   \* portfolios rows: id -> row
  nextPortfolioId, \* the portfolios id sequence
  trades,       \* trades rows, in commit order
  sess,         \* the two Sessions: the API request's and the auto-trader's
  cycle,        \* process_auto_trading's position and locals
  sched         \* the scheduler process: phase, backfill locals, counters

dbVars == <<users, accounts, configs, tickers, price_ticks, price_times,
            portfolios, nextPortfolioId, trades>>
ledgerVars == <<accounts, portfolios, nextPortfolioId, trades>>
vars == <<users, accounts, configs, tickers, price_ticks, price_times,
          portfolios, nextPortfolioId, trades, sess, cycle, sched>>

Sessions == {"api", "auto"}
NoUser == "-"
NoTicker == "-"


(* --------------------------- record store ----------------------------- *)
HasPrice(t) == Len(price_ticks[t]) > 0
\* get_latest_price: ORDER BY timestamp DESC, first row
LatestPrice(t) == price_ticks[t][Len(price_ticks[t])]

\* the portfolios rows of one (user, ticker) pair
PositionIds(u, t) ==
  {id \in DOMAIN portfolios :
     portfolios[id].user_id = u /\ portfolios[id].ticker_id = t}

\* the pair's held quantity: 0 when no row exists
HeldQuantity(u, t) ==
  LET ids == PositionIds(u, t)
  IN IF ids = {} THEN 0 ELSE portfolios[CHOOSE id \in ids : TRUE].quantity

(* ------------------------------ sessions ------------------------------ *)
\* an Account object not loaded
NoAccount == [loaded |-> FALSE, cash |-> 0, orig |-> 0]
\* a fresh Session: empty identity map, nothing pending
IdleSession ==
  [pc |-> "idle", action |-> "NONE", user |-> NoUser, ticker |-> NoTicker,
   quantity |-> 0, price |-> 0,
   acct |-> NoAccount,     \* the Account object of the user being served
   pfs |-> <<>>,           \* loaded Portfolio objects: id -> attributes
   inserts |-> <<>>,       \* db.add(portfolio): new rows to insert
   newTrades |-> <<>>,     \* db.add(trade)
   result |-> "none"]

\* a Portfolio object as the session holds it: its attributes now, and the
\* row as loaded
LoadPortfolio(ss, id) ==
  IF id \in DOMAIN ss.pfs THEN ss.pfs[id]
  ELSE [quantity |-> portfolios[id].quantity,
        avg_price |-> portfolios[id].avg_price,
        current_price |-> portfolios[id].current_price,
        deleted |-> FALSE,
        orig |-> [quantity |-> portfolios[id].quantity,
                  avg_price |-> portfolios[id].avg_price,
                  current_price |-> portfolios[id].current_price]]

\* the Account object of user u as the session holds it (u has a row)
LoadAccount(ss, u) ==
  IF ss.acct.loaded THEN ss.acct
  ELSE [loaded |-> TRUE, cash |-> accounts[u], orig |-> accounts[u]]

\* commit and rollback expire every object and drop what was pending
Expired(ss) ==
  [ss EXCEPT !.acct = NoAccount, !.pfs = <<>>, !.inserts = <<>>,
             !.newTrades = <<>>]

\* the call is over: its arguments and locals go
Returned(ss, res) ==
  [ss EXCEPT !.pc = "idle", !.action = "NONE", !.user = NoUser,
             !.ticker = NoTicker, !.quantity = 0, !.price = 0,
             !.result = res]

\* the API request's session after the handler: closed, with the outcome
\* to answer
Closed(ss, res) ==
  [IdleSession EXCEPT !.pc = "done", !.result = res, !.action = ss.action,
                      !.user = ss.user, !.ticker = ss.ticker,
                      !.quantity = ss.quantity]

\* an exception that process_auto_trading does not catch: the cycle is over
RaisedUncaught(s, ss, err) ==
  IF s = "api" THEN Closed(ss, err)
  ELSE [Returned(ss, err) EXCEPT !.pc = "aborted"]

\* execute_buy / execute_sell raise.  The API's session is closed by the
\* request's teardown, which rolls back; process_auto_trading catches the
\* exception and goes on with the same session, nothing rolled back.
Raised(s, ss, err) ==
  IF s = "api" THEN Closed(ss, err)
  ELSE Returned(ss, err)

\* the account looked up before the price
ExecPriceAfterAccount(s, ss) ==
  IF ~HasPrice(ss.ticker)
  THEN Raised(s, ss, IF ss.user \notin DOMAIN accounts THEN "AccountNotFound"
                     ELSE "NoPricingData")
  ELSE [ss EXCEPT !.price = LatestPrice(ss.ticker),
                  !.pc = IF ss.action = "BUY" THEN "buy_account"
                         ELSE "sell_portfolio"]

\* get_latest_price(db, ticker_id), the first statement of both operations
ExecPrice(s, ss) ==
  IF ~HasPrice(ss.ticker) THEN Raised(s, ss, "NoPricingData")
  ELSE [ss EXCEPT !.price = LatestPrice(ss.ticker),
                  !.pc = IF ss.action = "BUY" THEN "buy_account"
                         ELSE "sell_portfolio"]

\* the funds check with <= for <: a cost equal to the balance is refused
BuyAccountStrict(s, ss) ==
  IF ss.user \notin DOMAIN accounts THEN Raised(s, ss, "AccountNotFound")
  ELSE LET a == LoadAccount(ss, ss.user)
           total_cost == ss.price * ss.quantity
       IN IF a.cash <= total_cost
          THEN Raised(s, [ss EXCEPT !.acct = a], "InsufficientFunds")
          ELSE [ss EXCEPT !.acct = [a EXCEPT !.cash = a.cash - total_cost],
                          !.pc = "buy_portfolio"]

\* no funds check at all
BuyAccountUnchecked(s, ss) ==
  IF ss.user \notin DOMAIN accounts THEN Raised(s, ss, "AccountNotFound")
  ELSE LET a == LoadAccount(ss, ss.user)
           total_cost == ss.price * ss.quantity
       IN [ss EXCEPT !.acct = [a EXCEPT !.cash = a.cash - total_cost],
                     !.pc = "buy_portfolio"]

\* execute_buy, lines 26-35: the account, the funds check, the debit
BuyAccount(s, ss) ==
  IF ss.user \notin DOMAIN accounts THEN Raised(s, ss, "AccountNotFound")
  ELSE LET a == LoadAccount(ss, ss.user)
           total_cost == ss.price * ss.quantity
       IN IF a.cash < total_cost
          THEN Raised(s, [ss EXCEPT !.acct = a], "InsufficientFunds")
          ELSE [ss EXCEPT !.acct = [a EXCEPT !.cash = a.cash - total_cost],
                          !.pc = "buy_portfolio"]

\* the Trade object both operations add
NewTrade(ss, total) ==
  [user_id |-> ss.user, ticker_id |-> ss.ticker, action |-> ss.action,
   quantity |-> ss.quantity, price |-> ss.price, total_amount |-> total,
   cash_after |-> ss.acct.cash]

\* the mean of the old average and the new price, the quantities ignored
BoughtIntoUnweighted(p, quantity, price) ==
  [p EXCEPT !.avg_price = Rat(p.avg_price[1] + price * p.avg_price[2],
                              2 * p.avg_price[2]),
            !.quantity = p.quantity + quantity,
            !.current_price = price]

\* execute_buy, lines 45-48: the existing position after a BUY
BoughtInto(p, quantity, price) ==
  LET total_cost == price * quantity
      total_quantity == p.quantity + quantity
  IN [p EXCEPT !.avg_price = Rat(p.avg_price[1] * p.quantity
                                   + total_cost * p.avg_price[2],
                                 p.avg_price[2] * total_quantity),
               !.quantity = total_quantity,
               !.current_price = price]

\* execute_buy, lines 51-58: the position a first BUY creates
NewPosition(u, t, quantity, price) ==
  [user_id |-> u, ticker_id |-> t, quantity |-> quantity,
   avg_price |-> RatOfInt(price), current_price |-> price]

\* execute_buy, lines 38-70, with portfolio row `id` returned by .first()
\* (0: no row)
BuyPortfolio(ss, id) ==
  LET withPf ==
        IF id = 0
        THEN [ss EXCEPT !.inserts =
                Append(@, NewPosition(ss.user, ss.ticker, ss.quantity, ss.price))]
        ELSE [ss EXCEPT !.pfs = (id :> BoughtInto(LoadPortfolio(ss, id),
                                                  ss.quantity, ss.price)) @@ @]
  IN [withPf EXCEPT !.newTrades = Append(@, NewTrade(ss, ss.price * ss.quantity)),
                    !.pc = "commit"]

\* the row kept when its quantity reaches 0
SoldFromKept(p, quantity, price) ==
  [p EXCEPT !.quantity = p.quantity - quantity,
            !.current_price = price]

\* a SELL that also sets avg_price to the sale price
SoldFromRepriced(p, quantity, price) ==
  [p EXCEPT !.quantity = p.quantity - quantity,
            !.avg_price = RatOfInt(price),
            !.current_price = price,
            !.deleted = (p.quantity - quantity = 0)]

\* execute_sell, lines 103-108: the position after a SELL
SoldFrom(p, quantity, price) ==
  [p EXCEPT !.quantity = p.quantity - quantity,
            !.current_price = price,
            !.deleted = (p.quantity - quantity = 0)]

\* no check of the held quantity
SellPortfolioUnchecked(s, ss, id) ==
  IF id = 0 THEN Raised(s, ss, "NoPosition")
  ELSE [ss EXCEPT !.pfs = (id :> SoldFrom(LoadPortfolio(ss, id), ss.quantity,
                                          ss.price)) @@ @,
                  !.pc = "sell_account"]

\* execute_sell, lines 92-108, with portfolio row `id` returned by .first()
SellPortfolio(s, ss, id) ==
  IF id = 0 THEN Raised(s, ss, "NoPosition")
  ELSE LET p == LoadPortfolio(ss, id)
       IN IF p.quantity < ss.quantity
          THEN Raised(s, [ss EXCEPT !.pfs = (id :> p) @@ @], "InsufficientShares")
          ELSE [ss EXCEPT !.pfs = (id :> SoldFrom(p, ss.quantity, ss.price)) @@ @,
                          !.pc = "sell_account"]

\* a credit of the price alone, the quantity forgotten
SellAccountUnitCredit(s, ss) ==
  IF ss.user \notin DOMAIN accounts THEN Raised(s, ss, "InternalError")
  ELSE LET a == LoadAccount(ss, ss.user)
           total_revenue == ss.price * ss.quantity
           credited == [ss EXCEPT !.acct = [a EXCEPT !.cash = a.cash + ss.price]]
       IN [credited EXCEPT !.newTrades = Append(@, NewTrade(credited, total_revenue)),
                           !.pc = "commit"]

\* execute_sell, lines 111-124: the credit and the trade; a missing Account
\* row makes `account.cash_balance` raise AttributeError on None
SellAccount(s, ss) ==
  IF ss.user \notin DOMAIN accounts THEN Raised(s, ss, "InternalError")
  ELSE LET a == LoadAccount(ss, ss.user)
           total_revenue == ss.price * ss.quantity
           credited == [ss EXCEPT !.acct = [a EXCEPT !.cash = a.cash + total_revenue]]
       IN [credited EXCEPT !.newTrades = Append(@, NewTrade(credited, total_revenue)),
                           !.pc = "commit"]


(* ------------------------------- commit ------------------------------- *)
\* the columns of a loaded Portfolio object that differ from the loaded row
Changed(p) ==
  \/ p.quantity # p.orig.quantity
  \/ p.avg_price # p.orig.avg_price
  \/ p.current_price # p.orig.current_price

\* flush: an UPDATE of a row that is gone matches nothing and the ORM
\* raises StaleDataError (a DELETE of a row that is gone only warns)
FlushStale(ss) ==
  \E id \in DOMAIN ss.pfs :
     /\ ~ss.pfs[id].deleted
     /\ Changed(ss.pfs[id])
     /\ id \notin DOMAIN portfolios

\* flush: the portfolios table after the session's DELETEs, UPDATEs (changed
\* columns only) and INSERTs
FlushedPortfolios(ss) ==
  LET gone == {id \in DOMAIN ss.pfs : ss.pfs[id].deleted}
      kept == DOMAIN portfolios \ gone
      fresh == nextPortfolioId .. (nextPortfolioId + Len(ss.inserts) - 1)
      written(id) ==
        IF id \in DOMAIN ss.pfs
        THEN LET p == ss.pfs[id]
             IN [portfolios[id] EXCEPT
                   !.quantity = IF p.quantity # p.orig.quantity
                                THEN p.quantity ELSE @,
                   !.avg_price = IF p.avg_price # p.orig.avg_price
                                 THEN p.avg_price ELSE @,
                   !.current_price = IF p.current_price # p.orig.current_price
                                     THEN p.current_price ELSE @]
        ELSE portfolios[id]
  IN [id \in kept \cup fresh |->
        IF id \in kept THEN written(id)
        ELSE ss.inserts[id - nextPortfolioId + 1]]

\* a flush that leaves the Account's UPDATE out
FlushedAccountsDropped(ss) == accounts

\* flush: the accounts table after the UPDATE of the session's Account
FlushedAccounts(ss) ==
  IF ss.acct.loaded /\ ss.acct.cash # ss.acct.orig
  THEN [accounts EXCEPT ![ss.user] = ss.acct.cash]
  ELSE accounts

\* a flush that puts the new Trade rows before the ones there
FlushedTradesPrepended(ss) == ss.newTrades \o trades

\* flush: the trades table after the INSERT of the session's new Trade
FlushedTrades(ss) == trades \o ss.newTrades

\* the auto-trader's AutoTradeConfig objects expire with every other object
ExpiredConfigs(c) ==
  [c EXCEPT !.cfgs = [u \in DOMAIN c.cfgs |-> [c.cfgs[u] EXCEPT !.loaded = FALSE]]]

\* db.commit() at the end of execute_buy / execute_sell, then the return
\* (the API closes its session; the auto-trader's db.refresh(account)
\* reloads the account)
Commit(s) ==
  /\ sess[s].pc = "commit"
  /\ LET ss == sess[s]
     IN IF FlushStale(ss)
        THEN /\ UNCHANGED ledgerVars
             /\ sess' = [sess EXCEPT ![s] =
                   IF s = "api" THEN Closed(ss, "StaleData")
                   ELSE Returned(Expired(ss), "StaleData")]
        ELSE /\ accounts' = FlushedAccounts(ss)
             /\ portfolios' = FlushedPortfolios(ss)
             /\ nextPortfolioId' = nextPortfolioId + Len(ss.inserts)
             /\ trades' = FlushedTrades(ss)
             /\ sess' = [sess EXCEPT ![s] =
                   IF s = "api" THEN Closed(ss, "ok")
                   ELSE Returned([Expired(ss) EXCEPT !.acct =
                                    [loaded |-> TRUE,
                                     cash |-> FlushedAccounts(ss)[ss.user],
                                     orig |-> FlushedAccounts(ss)[ss.user]]],
                                 "ok")]
  /\ cycle' = IF s = "auto" THEN ExpiredConfigs(cycle) ELSE cycle
  /\ UNCHANGED <<users, configs, tickers, price_ticks, price_times, sched>>

(* ------------------- execute_buy / execute_sell steps ----------------- *)
SessExecPrice(s) ==
  /\ sess[s].pc = "exec_price"
  /\ sess' = [sess EXCEPT ![s] = ExecPrice(s, sess[s])]
  /\ UNCHANGED <<dbVars, cycle, sched>>

SessBuyAccount(s) ==
  /\ sess[s].pc = "buy_account"
  /\ sess' = [sess EXCEPT ![s] = BuyAccount(s, sess[s])]
  /\ UNCHANGED <<dbVars, cycle, sched>>

SessBuyPortfolio(s) ==
  /\ sess[s].pc = "buy_portfolio"
  /\ LET ids == PositionIds(sess[s].user, sess[s].ticker)
     IN \E id \in (IF ids = {} THEN {0} ELSE ids) :
          sess' = [sess EXCEPT ![s] = BuyPortfolio(sess[s], id)]
  /\ UNCHANGED <<dbVars, cycle, sched>>

SessSellPortfolio(s) ==
  /\ sess[s].pc = "sell_portfolio"
  /\ LET ids == PositionIds(sess[s].user, sess[s].ticker)
     IN \E id \in (IF ids = {} THEN {0} ELSE ids) :
          sess' = [sess EXCEPT ![s] = SellPortfolio(s, sess[s], id)]
  /\ UNCHANGED <<dbVars, cycle, sched>>

SessSellAccount(s) ==
  /\ sess[s].pc = "sell_account"
  /\ sess' = [sess EXCEPT ![s] = SellAccount(s, sess[s])]
  /\ UNCHANGED <<dbVars, cycle, sched>>

(* ---------------------------- API handlers ---------------------------- *)
\* register: the user row is committed first, the account and the config in
\* a second commit, which may not happen
Register(u, complete) ==
  /\ sess["api"].pc = "idle"
  /\ u \notin users
  /\ users' = users \cup {u}
  /\ accounts' = IF complete THEN (u :> INITIAL_CASH) @@ accounts ELSE accounts
  /\ configs' = IF complete
                THEN (u :> [enabled |-> FALSE,
                            confidence_threshold |-> DEFAULT_THRESHOLD,
                            max_trade_size |-> DEFAULT_MAX_TRADE_SIZE]) @@ configs
                ELSE configs
  /\ UNCHANGED <<tickers, price_ticks, price_times, portfolios,
                 nextPortfolioId, trades, sess, cycle, sched>>

\* update_auto_config
Given(field, old) == IF field = {} THEN old ELSE CHOOSE v \in field : TRUE
UpdateAutoConfig(u, upd) ==
  /\ sess["api"].pc = "idle"
  /\ u \in users
  /\ u \in DOMAIN configs
  /\ configs' = [configs EXCEPT ![u] =
        [enabled |-> Given(upd.enabled, @.enabled),
         confidence_threshold |-> Given(upd.confidence_threshold,
                                        @.confidence_threshold),
         max_trade_size |-> Given(upd.max_trade_size, @.max_trade_size)]]
  /\ configs' # configs
  /\ UNCHANGED <<users, accounts, tickers, price_ticks, price_times, portfolios,
                 nextPortfolioId, trades, sess, cycle, sched>>

\* create_trade: the ticker lookup, then execute_buy / execute_sell up to
\* its first statement, get_latest_price
CreateTrade(u, t, action, quantity) ==
  /\ sess["api"].pc = "idle"
  /\ u \in users
  /\ Len(trades) < MaxTrades
  /\ LET ss == [IdleSession EXCEPT !.action = action, !.user = u, !.ticker = t,
                                   !.quantity = quantity]
     IN sess' = [sess EXCEPT !["api"] =
           IF t \notin tickers THEN Closed(ss, "TickerNotFound")
           ELSE ExecPrice("api", ss)]
  /\ UNCHANGED <<dbVars, cycle, sched>>

\* get_portfolio -> update_portfolio_prices: every position of the user gets
\* the latest price as current_price
GetPortfolio(u) ==
  /\ sess["api"].pc = "idle"
  /\ u \in users
  /\ portfolios' = [id \in DOMAIN portfolios |->
        IF portfolios[id].user_id = u /\ HasPrice(portfolios[id].ticker_id)
        THEN [portfolios[id] EXCEPT !.current_price = LatestPrice(portfolios[id].ticker_id)]
        ELSE portfolios[id]]
  /\ portfolios' # portfolios
  /\ UNCHANGED <<users, accounts, configs, tickers, price_ticks, price_times,
                 nextPortfolioId, trades, sess, cycle, sched>>

\* create_trade returns the trade or the error; the request is over
Respond ==
  /\ sess["api"].pc = "done"
  /\ sess' = [sess EXCEPT !["api"] = IdleSession]
  /\ UNCHANGED <<dbVars, cycle, sched>>

(* ------------------------- scheduler: bootstrap ----------------------- *)
\* the step-update rule without the rounding, on an exact price r (cents):
\* price_change = price * volatility * direction;
\* max(price + price_change, 1.0)
StepPrice(r, d) ==
  LET factor == Rat(1000 + d.vol * d.dir, 1000)
      moved == Rat(r[1] * factor[1], r[2] * factor[2])
  IN IF moved[1] >= MIN_PRICE * moved[2] THEN moved ELSE RatOfInt(MIN_PRICE)

\* the momentum kick a thousand times too large
TickPriceFullKick(last_price, d) ==
  LET price_change == last_price * d.vol * d.dir
      new_price == Max(last_price * 1000 + price_change, MIN_PRICE * 1000)
      trend == IF price_change > 0 THEN 1 ELSE -1
      kicked == IF d.mom
                THEN new_price + last_price * 1000 * trend
                ELSE new_price
  IN RoundCents(<<Max(kicked, 0), 1000>>)

\* simulate_price_tick, lines 119-134: the new price from last_price (cents)
TickPrice(last_price, d) ==
  LET price_change == last_price * d.vol * d.dir          \* in 1/1000 cent
      new_price == Max(last_price * 1000 + price_change, MIN_PRICE * 1000)
      trend == IF price_change > 0 THEN 1 ELSE -1
      kicked == IF d.mom
                THEN new_price + last_price * MOMENTUM_FACTOR * trend
                ELSE new_price
  IN RoundCents(<<kicked, 1000>>)

IdleSched ==
  [phase |-> "boot", idx |-> 0, loop |-> FALSE, count |-> 0,
   price |-> <<0, 1>>, batch |-> <<>>, ticks |-> 0, cycles |-> 0,
   starts |-> 1,
   raised |-> NoTicker,   \* the ticker whose processing raised in the
                          \* scheduler's last job, if one did
   now |-> HistSpan,      \* datetime.utcnow(), in minutes
   end_time |-> 0,        \* generate_historical_data's end_time
   time |-> 0]            \* and the current_time of its time loop

\* the scheduler process is stopped, whatever it is doing, and started
\* again: __main__ calls init_data() anew (ticks, cycles and starts only
\* count what was explored)
StartScheduler ==
  /\ sched.phase # "boot"
  /\ sched.starts < MaxStarts
  /\ sched' = [IdleSched EXCEPT !.ticks = sched.ticks, !.cycles = sched.cycles,
                                !.starts = sched.starts + 1,
                                !.now = sched.now + 1]
  /\ UNCHANGED <<dbVars, sess, cycle>>

\* initialize_tickers, then generate_historical_data up to its ticker loop
InitializeTickers ==
  /\ sched.phase = "boot"
  /\ tickers' = TickerSet
  /\ sched' = [sched EXCEPT !.phase = "backfill", !.idx = 1,
                            !.end_time = sched.now]
  /\ UNCHANGED <<users, accounts, configs, price_ticks, price_times, portfolios,
                 nextPortfolioId, trades, sess, cycle>>

\* a count that finds nothing unless the history is complete
ExistingCountOfComplete(t) ==
  IF Len(price_ticks[t]) >= HistPoints THEN Len(price_ticks[t]) ELSE 0

\* a count that finds nothing
ExistingCountZero(t) == 0

\* lines 40-42: the number of price ticks the ticker has
ExistingCount(t) == Len(price_ticks[t])

\* line 36: start_time
StartTime == sched.end_time - HistSpan

\* the price and the timestamp columns of a batch of PriceTick objects
BatchPrices(batch) == [i \in 1..Len(batch) |-> batch[i].price]
BatchTimes(batch) == [i \in 1..Len(batch) |-> batch[i].timestamp]

\* generate_historical_data, lines 38-58: the next ticker; one that has any
\* price tick is skipped
BackfillTicker ==
  /\ sched.phase = "backfill"
  /\ ~sched.loop
  /\ IF sched.idx > Len(TickerOrder)
     THEN sched' = [sched EXCEPT !.phase = "running", !.idx = 0]
     ELSE LET t == TickerOrder[sched.idx]
          IN IF ExistingCount(t) > 0
             THEN sched' = [sched EXCEPT !.idx = @ + 1]
             ELSE sched' = [sched EXCEPT !.loop = TRUE, !.count = 0,
                                         !.price = RatOfInt(InitialPrice(t)),
                                         !.time = StartTime,
                                         !.batch = <<>>]
  /\ UNCHANGED <<dbVars, sess, cycle>>

\* a time loop that saves a full batch and goes on filling the same list
BackfillPointKeepsBatch(draws) ==
  /\ sched.phase = "backfill"
  /\ sched.loop
  /\ sched.time <= sched.end_time
  /\ \E d \in draws :
       LET t == TickerOrder[sched.idx]
           current_price == StepPrice(sched.price, d)
           batch == Append(sched.batch,
                           [price |-> RoundCents(current_price),
                            timestamp |-> sched.time])
           current_time == sched.time + HISTORICAL_INTERVAL_MINUTES
       IN /\ IF Len(batch) >= BATCH_SIZE
             THEN /\ price_ticks' = [price_ticks EXCEPT ![t] = @ \o BatchPrices(batch)]
                  /\ price_times' = [price_times EXCEPT ![t] = @ \o BatchTimes(batch)]
             ELSE UNCHANGED <<price_ticks, price_times>>
          /\ sched' = [sched EXCEPT !.price = current_price,
                                    !.batch = batch, !.count = @ + 1,
                                    !.time = current_time]
  /\ UNCHANGED <<users, accounts, configs, tickers, portfolios,
                 nextPortfolioId, trades, sess, cycle>>

\* generate_historical_data, lines 61-86: one iteration of the time loop;
\* a full batch is saved and committed
BackfillPoint(draws) ==
  /\ sched.phase = "backfill"
  /\ sched.loop
  /\ sched.time <= sched.end_time
  /\ \E d \in draws :
       LET t == TickerOrder[sched.idx]
           current_price == StepPrice(sched.price, d)
           batch == Append(sched.batch,
                           [price |-> RoundCents(current_price),
                            timestamp |-> sched.time])
           current_time == sched.time + HISTORICAL_INTERVAL_MINUTES
       IN IF Len(batch) >= BATCH_SIZE
          THEN /\ price_ticks' = [price_ticks EXCEPT ![t] = @ \o BatchPrices(batch)]
               /\ price_times' = [price_times EXCEPT ![t] = @ \o BatchTimes(batch)]
               /\ sched' = [sched EXCEPT !.price = current_price,
                                         !.batch = <<>>, !.count = @ + 1,
                                         !.time = current_time]
          ELSE /\ UNCHANGED <<price_ticks, price_times>>
               /\ sched' = [sched EXCEPT !.price = current_price,
                                         !.batch = batch, !.count = @ + 1,
                                         !.time = current_time]
  /\ UNCHANGED <<users, accounts, configs, tickers, portfolios,
                 nextPortfolioId, trades, sess, cycle>>

\* a backfill that leaves the time loop without saving the remaining batch
BackfillRestDropsBatch ==
  /\ sched.phase = "backfill"
  /\ sched.loop
  /\ sched.time > sched.end_time
  /\ UNCHANGED <<price_ticks, price_times>>
  /\ sched' = [sched EXCEPT !.loop = FALSE, !.idx = @ + 1, !.count = 0,
                            !.price = <<0, 1>>, !.batch = <<>>, !.time = 0]
  /\ UNCHANGED <<users, accounts, configs, tickers, portfolios,
                 nextPortfolioId, trades, sess, cycle>>

\* generate_historical_data, lines 88-94: the remaining batch, and on to the
\* next ticker
BackfillRest ==
  /\ sched.phase = "backfill"
  /\ sched.loop
  /\ sched.time > sched.end_time
  /\ price_ticks' = [price_ticks EXCEPT ![TickerOrder[sched.idx]] =
                                          @ \o BatchPrices(sched.batch)]
  /\ price_times' = [price_times EXCEPT ![TickerOrder[sched.idx]] =
                                          @ \o BatchTimes(sched.batch)]
  /\ sched' = [sched EXCEPT !.loop = FALSE, !.idx = @ + 1, !.count = 0,
                            !.price = <<0, 1>>, !.batch = <<>>, !.time = 0]
  /\ UNCHANGED <<users, accounts, configs, tickers, portfolios,
                 nextPortfolioId, trades, sess, cycle>>

(* ------------------------ scheduler: price ticks ---------------------- *)
\* the registered initial price taken whatever the history
TickBaseInitial(t) == InitialPrice(t)

\* lines 105-116: last_price: the latest tick's price, or the initial price
\* of a ticker without history
TickBase(t) == IF HasPrice(t) THEN LatestPrice(t) ELSE InitialPrice(t)

\* a tick that rewrites the ticker's latest price tick instead of adding one
SimulatePriceTickInPlace(draws) ==
  /\ sched.phase = "running"
  /\ sched.ticks < MaxTicks
  /\ \E draw \in [tickers -> draws] :
       price_ticks' = [t \in TickerSet |->
          IF t \in tickers
          THEN IF HasPrice(t)
               THEN [price_ticks[t] EXCEPT ![Len(price_ticks[t])] =
                        TickPrice(TickBase(t), draw[t])]
               ELSE <<TickPrice(TickBase(t), draw[t])>>
          ELSE price_ticks[t]]
  /\ price_times' = [t \in TickerSet |->
       IF t \in tickers /\ ~HasPrice(t)
       THEN <<sched.now + 1>> ELSE price_times[t]]
  /\ sched' = [sched EXCEPT !.ticks = @ + 1, !.raised = NoTicker,
                            !.now = @ + 1]
  /\ UNCHANGED <<users, accounts, configs, tickers, portfolios,
                 nextPortfolioId, trades, sess, cycle>>

\* simulate_price_tick: one new tick per ticker, one commit
SimulatePriceTick(draws) ==
  /\ sched.phase = "running"
  /\ sched.ticks < MaxTicks
  /\ \E draw \in [tickers -> draws] :
       price_ticks' = [t \in TickerSet |->
          IF t \in tickers
          THEN Append(price_ticks[t], TickPrice(TickBase(t), draw[t]))
          ELSE price_ticks[t]]
  /\ price_times' = [t \in TickerSet |->
       IF t \in tickers THEN Append(price_times[t], sched.now + 1)
       ELSE price_times[t]]
  /\ sched' = [sched EXCEPT !.ticks = @ + 1, !.raised = NoTicker,
                            !.now = @ + 1]
  /\ UNCHANGED <<users, accounts, configs, tickers, portfolios,
                 nextPortfolioId, trades, sess, cycle>>

\* simulate_price_tick when the iteration of one ticker raises (its query
\* of lines 105-107 fails on a database error, say): the loop of lines
\* 103-138 has no handler, so the exception leaves simulate_price_tick
\* before the commit of line 140; price_tick_job catches it (main.py:26)
\* and closes the session, and the ticks added for the earlier tickers are
\* discarded with it
SimulatePriceTickRaises ==
  /\ sched.phase = "running"
  /\ sched.ticks < MaxTicks
  /\ \E i \in 1..Len(TickerOrder) :
       /\ TickerOrder[i] \in tickers
       /\ sched' = [sched EXCEPT !.ticks = @ + 1, !.raised = TickerOrder[i],
                                 !.now = @ + 1]
  /\ UNCHANGED <<dbVars, sess, cycle>>

\* generate_historical_data when the time loop of one ticker raises (a
\* bulk save or commit of lines 80-81 fails): nothing catches it in
\* generate_historical_data or init_data (main.py:14-19), the scheduler
\* process ends at main.py:52; the batches already committed stay, the
\* unsaved batch is lost and the tickers after this one are not reached
BackfillRaises ==
  /\ sched.phase = "backfill"
  /\ sched.loop
  /\ sched' = [IdleSched EXCEPT !.phase = "stopped",
                                !.ticks = sched.ticks,
                                !.cycles = sched.cycles,
                                !.starts = sched.starts,
                                !.now = sched.now,
                                !.raised = TickerOrder[sched.idx]]
  /\ UNCHANGED <<dbVars, sess, cycle>>

(* ---------------------------- signal engine --------------------------- *)
\* A value of the indicator dictionary: None, or a float, which is nan or
\* an exact rational <<numerator, denominator>>.
None == [tag |-> "None", v |-> <<0, 1>>]
NaN == [tag |-> "nan", v |-> <<0, 1>>]
Float(r) == [tag |-> "float", v |-> r]

\* Python's x < y on two floats: false as soon as one of them is nan
Less(x, y) ==
  /\ x.tag = "float"
  /\ y.tag = "float"
  /\ x.v[1] * y.v[2] < y.v[1] * x.v[2]

\* the dictionary of get_technical_indicators for a ticker without price
\* ticks (indicators.py:94-102)
NoIndicators ==
  [sma_20 |-> None, sma_50 |-> None, ema_12 |-> None, ema_26 |-> None,
   rsi_14 |-> None, macd |-> None, macd_signal |-> None,
   macd_histogram |-> None, bollinger_upper |-> None,
   bollinger_middle |-> None, bollinger_lower |-> None, volatility |-> None]

\* a float whose value is not computed here: it is irrational (a standard
\* deviation) or its exact fraction exceeds the integers of the checker (an
\* exponential mean)
Computed == [tag |-> "computed", v |-> <<0, 1>>]

(* --------------------------- indicator engine ------------------------- *)
\* the sum of a sequence of integers
RECURSIVE SumSeq(_)
SumSeq(seq) == IF seq = <<>> THEN 0 ELSE Head(seq) + SumSeq(Tail(seq))

\* prices.tail(period)
TailOf(prices, period) ==
  SubSeq(prices, Len(prices) - period + 1, Len(prices))

\* all prices of the series are the same
Constant(prices) == \A i \in 1..Len(prices) : prices[i] = prices[1]

\* a float computed from the series: exactly c when the series is constant
\* (every mean is that price, every difference and deviation is 0)
ComputedOr(prices, c) == IF Constant(prices) THEN Float(<<c, 1>>) ELSE Computed

\* calculate_sma
CalculateSma(prices, period) ==
  IF Len(prices) < period THEN None
  ELSE Float(Rat(SumSeq(TailOf(prices, period)), period))

\* calculate_ema
CalculateEma(prices, period) ==
  IF Len(prices) < period THEN None
  ELSE ComputedOr(prices, prices[1])

\* calculate_rsi: the means of the gains and of the losses over the last
\* `period` deltas; rs = avg_gain / avg_loss is inf when only avg_loss is 0
\* (rsi 100) and nan when both are 0 (rsi nan); otherwise
\* 100 - 100 / (1 + rs) = 100 * gain / (gain + loss)
CalculateRsi(prices, period) ==
  IF Len(prices) < period + 1 THEN None
  ELSE LET n == Len(prices)
           deltas == [i \in 1..period |->
                        prices[n - period + i] - prices[n - period + i - 1]]
           gains == SumSeq([i \in 1..period |-> Max(deltas[i], 0)])
           losses == SumSeq([i \in 1..period |-> Max(-deltas[i], 0)])
       IN IF losses = 0
          THEN IF gains = 0 THEN NaN ELSE Float(<<100, 1>>)
          ELSE Float(Rat(100 * gains, gains + losses))

\* calculate_macd (fast 12, slow 26, signal 9)
CalculateMacd(prices, slow) ==
  IF Len(prices) < slow
  THEN [macd |-> None, signal |-> None, histogram |-> None]
  ELSE [macd |-> ComputedOr(prices, 0), signal |-> ComputedOr(prices, 0),
        histogram |-> ComputedOr(prices, 0)]

\* calculate_bollinger_bands
CalculateBollingerBands(prices, period) ==
  IF Len(prices) < period
  THEN [upper |-> None, middle |-> None, lower |-> None]
  ELSE [upper |-> ComputedOr(prices, prices[1]),
        middle |-> Float(Rat(SumSeq(TailOf(prices, period)), period)),
        lower |-> ComputedOr(prices, prices[1])]

\* a window one return short: period prices taken for period returns
CalculateVolatilityShort(prices, period) ==
  IF Len(prices) < period THEN None
  ELSE ComputedOr(prices, 0)

\* calculate_volatility
CalculateVolatility(prices, period) ==
  IF Len(prices) < period + 1 THEN None
  ELSE ComputedOr(prices, 0)

\* get_technical_indicators: the `limit` latest price ticks of the ticker,
\* in chronological order, and their indicators
GetTechnicalIndicators(t, limit) ==
  LET n == Len(price_ticks[t])
      prices == IF n <= limit THEN price_ticks[t]
                ELSE SubSeq(price_ticks[t], n - limit + 1, n)
      macd_values == CalculateMacd(prices, 26)
      bollinger == CalculateBollingerBands(prices, 20)
  IN IF prices = <<>> THEN NoIndicators
     ELSE [sma_20 |-> CalculateSma(prices, 20),
           sma_50 |-> CalculateSma(prices, 50),
           ema_12 |-> CalculateEma(prices, 12),
           ema_26 |-> CalculateEma(prices, 26),
           rsi_14 |-> CalculateRsi(prices, 14),
           macd |-> macd_values.macd,
           macd_signal |-> macd_values.signal,
           macd_histogram |-> macd_values.histogram,
           bollinger_upper |-> bollinger.upper,
           bollinger_middle |-> bollinger.middle,
           bollinger_lower |-> bollinger.lower,
           volatility |-> CalculateVolatility(prices, 20)]

\* The price series the indicator engine is given: a constant one, a
\* rising and a falling one, one that alternates, one that falls three
\* times and rises from then on, one that rises three times and stays.
SeriesShapes ==
  {"constant", "rising", "falling", "zigzag", "recovering", "settled"}
PriceAt(shape, i) ==
  IF shape = "rising" THEN 25000 + 100 * i
  ELSE IF shape = "falling" THEN 25000 - 100 * i
  ELSE IF shape = "zigzag" THEN 25000 + 100 * (i % 2)
  ELSE IF shape = "recovering"
  THEN (IF i <= 4 THEN 25000 - 100 * i ELSE 24600 + 100 * (i - 4))
  ELSE IF shape = "settled"
  THEN (IF i <= 4 THEN 25000 + 100 * i ELSE 25400)
  ELSE 25000
SeriesLengths == (0..MaxSeriesLen) \cup {LIMIT, LIMIT + 1}
SeriesInputs ==
  { [i \in 1..n |-> PriceAt(shape, i)] :
      shape \in SeriesShapes, n \in SeriesLengths }

\* <= and >= for < and >: an RSI of exactly 30 buys, of exactly 70 sells
BaseDecisionInclusive(rsi) ==
  IF rsi # None /\ ~Less(Float(<<30, 1>>), rsi) /\ rsi.tag = "float"
  THEN [action |-> "BUY", confidence |-> 70, reason |-> <<"oversold">>]
  ELSE IF rsi # None /\ ~Less(rsi, Float(<<70, 1>>)) /\ rsi.tag = "float"
  THEN [action |-> "SELL", confidence |-> 70, reason |-> <<"overbought">>]
  ELSE [action |-> "HOLD", confidence |-> 50, reason |-> <<"insufficient data">>]

\* rule_based_fallback, lines 82-95: the decision from the RSI (confidence
\* in 1/100; the reason as the list of its clauses)
BaseDecision(rsi) ==
  IF rsi # None /\ Less(rsi, Float(<<30, 1>>))
  THEN [action |-> "BUY", confidence |-> 70, reason |-> <<"oversold">>]
  ELSE IF rsi # None /\ Less(Float(<<70, 1>>), rsi)
  THEN [action |-> "SELL", confidence |-> 70, reason |-> <<"overbought">>]
  ELSE [action |-> "HOLD", confidence |-> 50, reason |-> <<"insufficient data">>]

\* a histogram that is not positive counted against a BUY
MacdConfirmationPenalised(sig, macd_histogram) ==
  IF Less(Float(<<0, 1>>), macd_histogram) /\ sig.action = "BUY"
  THEN [sig EXCEPT !.confidence = Min(85, @ + 15),
                   !.reason = Append(@, "positive MACD momentum")]
  ELSE IF sig.action = "BUY"
  THEN [sig EXCEPT !.confidence = @ - 15]
  ELSE sig

\* rule_based_fallback, lines 98-103: the MACD confirmation
MacdConfirmation(sig, macd_histogram) ==
  IF macd_histogram # None /\ Less(Float(<<0, 1>>), macd_histogram)
       /\ sig.action = "BUY"
  THEN [sig EXCEPT !.confidence = Min(85, @ + 15),
                   !.reason = Append(@, "positive MACD momentum")]
  ELSE IF macd_histogram # None /\ Less(macd_histogram, Float(<<0, 1>>))
            /\ sig.action = "SELL"
  THEN [sig EXCEPT !.confidence = Min(85, @ + 15),
                   !.reason = Append(@, "negative MACD momentum")]
  ELSE sig

\* a crossover that turns a HOLD into a BUY or a SELL of confidence 0.60
MovingAverageCrossoverUpgrades(sig, sma_20, sma_50) ==
  IF sma_20 # None /\ sma_50 # None
  THEN IF Less(sma_50, sma_20) /\ sig.action \in {"BUY", "HOLD"}
       THEN [sig EXCEPT !.action = "BUY",
                        !.confidence = Min(90, @ + 10),
                        !.reason = Append(@, "bullish MA crossover")]
       ELSE IF Less(sma_20, sma_50) /\ sig.action \in {"SELL", "HOLD"}
       THEN [sig EXCEPT !.action = "SELL",
                        !.confidence = Min(90, @ + 10),
                        !.reason = Append(@, "bearish MA crossover")]
       ELSE sig
  ELSE sig

\* rule_based_fallback, lines 106-112: the moving average crossover
MovingAverageCrossover(sig, sma_20, sma_50) ==
  IF sma_20 # None /\ sma_50 # None
  THEN IF Less(sma_50, sma_20) /\ sig.action = "BUY"
       THEN [sig EXCEPT !.confidence = Min(90, @ + 10),
                        !.reason = Append(@, "bullish MA crossover")]
       ELSE IF Less(sma_20, sma_50) /\ sig.action = "SELL"
       THEN [sig EXCEPT !.confidence = Min(90, @ + 10),
                        !.reason = Append(@, "bearish MA crossover")]
       ELSE sig
  ELSE sig

\* rule_based_fallback
RuleBasedFallback(indicators) ==
  MovingAverageCrossover(
    MacdConfirmation(BaseDecision(indicators.rsi_14),
                     indicators.macd_histogram),
    indicators.sma_20, indicators.sma_50)

\* A member of the JSON object the advisory service answers with: absent,
\* null, a string s or a number n (a confidence in 1/100).
Absent == [tag |-> "absent", s |-> "", n |-> 0]
JNull == [tag |-> "null", s |-> "", n |-> 0]
JString(str) == [tag |-> "string", s |-> str, n |-> 0]
JNumber(num) == [tag |-> "number", s |-> "", n |-> num]

\* str.upper() on the action strings drawn
Upper(str) ==
  IF str = "buy" THEN "BUY"
  ELSE IF str = "sell" THEN "SELL"
  ELSE IF str = "hold" THEN "HOLD"
  ELSE str

\* What one call of the advisory service meets:
\*   key          settings.ANTHROPIC_API_KEY is set
\*   sent         "timeout": client.post raises; "response": it returns
\*   status_code  of the response
\*   body         "undecodable": response.json() raises; "empty": no
\*                content; "text": content[0] has a text
\*   text         "invalid": json.loads raises; "array": it gives a list;
\*                "object": it gives a dictionary
\*   action, confidence, reason   the members of that dictionary
NoResponse ==
  [key |-> FALSE, sent |-> "response", status_code |-> 0, body |-> "empty",
   text |-> "invalid", action |-> Absent, confidence |-> Absent,
   reason |-> Absent]

Replied(status_code, body, text) ==
  [NoResponse EXCEPT !.key = TRUE, !.status_code = status_code,
                     !.body = body, !.text = text]

Responses ==
  { NoResponse,
    [NoResponse EXCEPT !.key = TRUE, !.sent = "timeout"],
    Replied(429, "text", "object"),
    Replied(500, "undecodable", "invalid"),
    Replied(200, "undecodable", "invalid"),
    Replied(200, "empty", "invalid"),
    Replied(200, "text", "invalid"),
    Replied(200, "text", "array") }
  \cup
  { [Replied(200, "text", "object") EXCEPT !.action = a, !.confidence = c,
                                           !.reason = r] :
      a \in {Absent, JNull, JNumber(1), JString("BUY"), JString("sell"),
             JString("HOLD"), JString("STRONG_BUY")},
      c \in {Absent, JNull, JString("high"), JNumber(90), JNumber(70),
             JNumber(150), JNumber(-20)},
      r \in {Absent, JString("advisory text")} }

\* the signal of a call that raised
RaisedSignal == [action |-> "RAISED", confidence |-> 0, reason |-> <<>>]

\* a timeout that is not caught
GetClaudePredictionUncaught(indicators, response) ==
  IF ~response.key THEN RuleBasedFallback(indicators)
  ELSE IF response.sent = "timeout" THEN RaisedSignal
  ELSE IF response.status_code # 200 THEN RuleBasedFallback(indicators)
  ELSE IF response.body # "text" THEN RuleBasedFallback(indicators)
  ELSE IF response.text # "object" THEN RuleBasedFallback(indicators)
  ELSE IF response.action.tag \notin {"absent", "string"}
  THEN RuleBasedFallback(indicators)
  ELSE IF response.confidence.tag \notin {"absent", "number"}
  THEN RuleBasedFallback(indicators)
  ELSE [action |-> Upper(IF response.action = Absent THEN "HOLD"
                         ELSE response.action.s),
        confidence |-> IF response.confidence = Absent THEN 50
                       ELSE response.confidence.n,
        reason |-> IF response.reason = Absent THEN <<"AI prediction">>
                   ELSE <<response.reason.s>>]

\* get_claude_prediction: without a key the fallback (lines 10-11); an
\* exception of the request, of response.json(), of json.loads, of
\* result.get on a list, of .upper() on a non-string or of float() on a
\* non-number is caught at line 69 and gives the fallback (line 72); so do
\* a status other than 200 and an empty content; otherwise the parsed
\* members are returned with their defaults (lines 64-68)
GetClaudePrediction(indicators, response) ==
  IF ~response.key THEN RuleBasedFallback(indicators)
  ELSE IF response.sent = "timeout" THEN RuleBasedFallback(indicators)
  ELSE IF response.status_code # 200 THEN RuleBasedFallback(indicators)
  ELSE IF response.body # "text" THEN RuleBasedFallback(indicators)
  ELSE IF response.text # "object" THEN RuleBasedFallback(indicators)
  ELSE IF response.action.tag \notin {"absent", "string"}
  THEN RuleBasedFallback(indicators)
  ELSE IF response.confidence.tag \notin {"absent", "number"}
  THEN RuleBasedFallback(indicators)
  ELSE [action |-> Upper(IF response.action = Absent THEN "HOLD"
                         ELSE response.action.s),
        confidence |-> IF response.confidence = Absent THEN 50
                       ELSE response.confidence.n,
        reason |-> IF response.reason = Absent THEN <<"AI prediction">>
                   ELSE <<response.reason.s>>]

\* the indicator values the signal engine is given: the four that
\* rule_based_fallback reads, around its thresholds; the eight others only
\* enter the prompt
RsiInputs ==
  {None, NaN} \cup
  {Float(r) : r \in {<<0, 1>>, <<25, 1>>, <<2999, 100>>, <<30, 1>>,
                      <<50, 1>>, <<70, 1>>, <<7001, 100>>, <<100, 1>>}}
HistogramInputs == {None, Float(<<-1, 2>>), Float(<<0, 1>>), Float(<<1, 2>>)}
SmaInputs == {None, Float(<<10000, 1>>), Float(<<11000, 1>>)}
IndicatorInputs ==
  { [NoIndicators EXCEPT !.rsi_14 = rsi, !.macd_histogram = histogram,
                         !.sma_20 = sma_20, !.sma_50 = sma_50] :
      rsi \in RsiInputs, histogram \in HistogramInputs,
      sma_20 \in SmaInputs, sma_50 \in SmaInputs }

(* ------------------------- auto-trading cycle ------------------------- *)
\* no signal obtained yet
NoSignal == [action |-> "NONE", confidence |-> 0]
\* no prediction asked for yet
NoPrediction == [action |-> "NONE", confidence |-> 0, reason |-> <<>>]
IdleCycle ==
  [pc |-> "idle", queue |-> <<>>, cfgs |-> <<>>, user |-> NoUser, tq |-> <<>>,
   pair |-> <<NoUser, NoTicker>>,   \* the (user, ticker) being processed
   signal |-> NoSignal,             \* the signal obtained for it
   indicators |-> NoIndicators,     \* the indicator snapshot of a prediction,
   response |-> NoResponse,         \* what the advisory service does with it
   prediction |-> NoPrediction,     \* and the signal returned
   current_price |-> 0]             \* line 56: the price a BUY is sized with

\* get_trading_signal, line 123 (and process_auto_trading, line 38): the
\* indicators of a ticker
CallGetTechnicalIndicators(t) ==
  /\ t \in tickers
  /\ cycle.pair = <<NoUser, NoTicker>>
  /\ cycle' = [cycle EXCEPT !.pair = <<NoUser, t>>,
                            !.indicators = GetTechnicalIndicators(t, LIMIT)]
  /\ UNCHANGED <<dbVars, sess, sched>>

\* get_trading_signal, line 124: the prediction for the snapshot
CallGetClaudePrediction ==
  /\ cycle.prediction = NoPrediction
  /\ cycle' = [cycle EXCEPT !.prediction =
                   GetClaudePrediction(cycle.indicators, cycle.response)]
  /\ UNCHANGED <<dbVars, sess, sched>>

\* an AutoTradeConfig object as the cycle's session holds it: reloaded from
\* its row when expired
LoadConfig(c, u) ==
  IF c.cfgs[u].loaded THEN c.cfgs[u]
  ELSE [loaded |-> TRUE,
        confidence_threshold |-> configs[u].confidence_threshold,
        max_trade_size |-> configs[u].max_trade_size]

\* process_auto_trading, lines 13-22: the enabled configs and the tickers
\* (run_auto_trading is one scheduler job: a new session, one cycle at a
\* time)
\* every config, enabled or not
EnabledConfigsAll == DOMAIN configs

\* lines 13-15: the users whose AutoTradeConfig is enabled
EnabledConfigs == {u \in DOMAIN configs : configs[u].enabled}

AutoStart(max_cycles) ==
  /\ sched.phase = "running"
  /\ cycle.pc = "idle"
  /\ sched.cycles < max_cycles
  /\ sched' = [sched EXCEPT !.cycles = @ + 1]
  /\ LET enabled == EnabledConfigs
     IN IF enabled = {}
        THEN cycle' = cycle
        ELSE cycle' = [IdleCycle EXCEPT
                         !.pc = "user",
                         !.queue = SelectSeq(UserOrder, LAMBDA u : u \in enabled),
                         !.cfgs = [u \in enabled |->
                                     [loaded |-> TRUE,
                                      confidence_threshold |-> configs[u].confidence_threshold,
                                      max_trade_size |-> configs[u].max_trade_size]]]
  /\ sess' = [sess EXCEPT !["auto"] = IdleSession]
  /\ UNCHANGED dbVars

\* process_auto_trading, lines 24-33: the next config's user and account;
\* after the last, the cycle is over and the job closes its session
AutoUser ==
  /\ cycle.pc = "user"
  /\ IF cycle.queue = <<>>
     THEN /\ cycle' = IdleCycle
          /\ sess' = [sess EXCEPT !["auto"] = IdleSession]
     ELSE LET u == Head(cycle.queue)
          IN IF u \notin users \/ u \notin DOMAIN accounts
             THEN /\ cycle' = [cycle EXCEPT !.queue = Tail(@)]
                  /\ sess' = sess
             ELSE /\ cycle' = [cycle EXCEPT !.queue = Tail(@), !.user = u,
                                            !.tq = SelectSeq(TickerOrder,
                                                     LAMBDA t : t \in tickers),
                                            !.pc = "ticker"]
                  /\ sess' = [sess EXCEPT !["auto"].acct =
                                [loaded |-> TRUE, cash |-> accounts[u],
                                 orig |-> accounts[u]]]
  /\ UNCHANGED <<dbVars, sched>>

\* a BUY of max_trade_size shares whatever the balance
AutoBuyFullSize(ss, u, t, cfg) ==
  IF ~HasPrice(t) THEN [ss EXCEPT !.result = "NoPricingData"]
  ELSE LET a == LoadAccount(ss, u)
           max_quantity == cfg.max_trade_size
       IN [ss EXCEPT !.acct = a, !.pc = "exec_price", !.action = "BUY",
                     !.user = u, !.ticker = t, !.quantity = max_quantity,
                     !.result = "none"]

\* lines 54-68: a BUY signal: the size from the Account object's balance and
\* the latest price; execute_buy is called when it is positive
AutoBuy(ss, u, t, cfg) ==
  IF ~HasPrice(t) THEN [ss EXCEPT !.result = "NoPricingData"]
  ELSE LET a == LoadAccount(ss, u)
           max_quantity == Min(cfg.max_trade_size, a.cash \div LatestPrice(t))
       IN IF max_quantity > 0
          THEN [ss EXCEPT !.acct = a, !.pc = "exec_price", !.action = "BUY",
                          !.user = u, !.ticker = t, !.quantity = max_quantity,
                          !.result = "none"]
          ELSE [ss EXCEPT !.acct = a, !.result = "skipped"]

\* a SELL of max_trade_size shares whatever the position holds
AutoSellFullSize(ss, u, t, cfg, id) ==
  IF id = 0 THEN [ss EXCEPT !.result = "skipped"]
  ELSE LET p == LoadPortfolio(ss, id)
           sell_quantity == cfg.max_trade_size
       IN IF p.quantity > 0
          THEN IF ~HasPrice(t)
               THEN [ss EXCEPT !.pfs = (id :> p) @@ @, !.result = "NoPricingData"]
               ELSE [ss EXCEPT !.pfs = (id :> p) @@ @, !.pc = "exec_price",
                               !.action = "SELL", !.user = u, !.ticker = t,
                               !.quantity = sell_quantity, !.result = "none"]
          ELSE [ss EXCEPT !.pfs = (id :> p) @@ @, !.result = "skipped"]

\* lines 70-86: a SELL signal: the size from the position `id` the query
\* returns (0: none); execute_sell is called when the user holds shares
AutoSell(ss, u, t, cfg, id) ==
  IF id = 0 THEN [ss EXCEPT !.result = "skipped"]
  ELSE LET p == LoadPortfolio(ss, id)
           sell_quantity == Min(cfg.max_trade_size, p.quantity)
       IN IF p.quantity > 0
          THEN IF ~HasPrice(t)
               THEN [ss EXCEPT !.pfs = (id :> p) @@ @, !.result = "NoPricingData"]
               ELSE [ss EXCEPT !.pfs = (id :> p) @@ @, !.pc = "exec_price",
                               !.action = "SELL", !.user = u, !.ticker = t,
                               !.quantity = sell_quantity, !.result = "none"]
          ELSE [ss EXCEPT !.pfs = (id :> p) @@ @, !.result = "skipped"]

\* the signal compared with the default threshold, not the account's
FilteredByDefault(sig, cfg) == sig.confidence < DEFAULT_THRESHOLD

\* <= for <: a signal at the threshold is filtered out
FilteredAtThreshold(sig, cfg) == sig.confidence <= cfg.confidence_threshold

\* line 48: the signal is below the config's threshold
Filtered(sig, cfg) == sig.confidence < cfg.confidence_threshold

\* line 56: current_price, the latest price a BUY that passed the threshold
\* is sized with (0: no BUY to size, or no price to read)
SizingPrice(sig, cfg, t) ==
  IF ~Filtered(sig, cfg) /\ sig.action = "BUY" /\ HasPrice(t)
  THEN LatestPrice(t) ELSE 0

\* a cycle that leaves the ticker loop of the account at a filtered signal
AutoTickerBreaks(sig) ==
  /\ cycle.pc = "ticker"
  /\ sess["auto"].pc = "idle"
  /\ sig.action = "HOLD" \/ Len(trades) < MaxTrades
  /\ IF cycle.tq = <<>>
     THEN /\ cycle' = [cycle EXCEPT !.pc = "user", !.user = NoUser,
                                     !.pair = <<NoUser, NoTicker>>,
                                     !.signal = NoSignal,
                                     !.current_price = 0]
          /\ sess' = sess
     ELSE LET t == Head(cycle.tq)
              u == cycle.user
              cfg == LoadConfig(cycle, u)
              ss == sess["auto"]
              ids == PositionIds(u, t)
          IN /\ cycle' = [cycle EXCEPT
                            !.tq = IF Filtered(sig, cfg) THEN <<>> ELSE Tail(@),
                            !.cfgs[u] = cfg,
                            !.pair = <<u, t>>, !.signal = sig,
                            !.current_price = SizingPrice(sig, cfg, t)]
             /\ IF Filtered(sig, cfg)
                THEN sess' = [sess EXCEPT !["auto"].result = "filtered"]
                ELSE IF sig.action = "BUY"
                THEN sess' = [sess EXCEPT !["auto"] = AutoBuy(ss, u, t, cfg)]
                ELSE IF sig.action = "SELL"
                THEN \E id \in (IF ids = {} THEN {0} ELSE ids) :
                        sess' = [sess EXCEPT !["auto"] = AutoSell(ss, u, t, cfg, id)]
                ELSE sess' = [sess EXCEPT !["auto"].result = "hold"]
  /\ UNCHANGED <<dbVars, sched>>

\* process_auto_trading, lines 35-90: one ticker for the current user, up to
\* the call of execute_buy / execute_sell; sig is the signal obtained
AutoTicker(sig) ==
  /\ cycle.pc = "ticker"
  /\ sess["auto"].pc = "idle"
  /\ sig.action = "HOLD" \/ Len(trades) < MaxTrades
  /\ IF cycle.tq = <<>>
     THEN /\ cycle' = [cycle EXCEPT !.pc = "user", !.user = NoUser,
                                     !.pair = <<NoUser, NoTicker>>,
                                     !.signal = NoSignal,
                                     !.current_price = 0]
          /\ sess' = sess
     ELSE LET t == Head(cycle.tq)
              u == cycle.user
              cfg == LoadConfig(cycle, u)
              ss == sess["auto"]
              ids == PositionIds(u, t)
          IN /\ cycle' = [cycle EXCEPT !.tq = Tail(@), !.cfgs[u] = cfg,
                                        !.pair = <<u, t>>, !.signal = sig,
                                        !.current_price =
                                           SizingPrice(sig, cfg, t)]
             /\ IF Filtered(sig, cfg)
                THEN sess' = [sess EXCEPT !["auto"].result = "filtered"]
                ELSE IF sig.action = "BUY"
                THEN sess' = [sess EXCEPT !["auto"] = AutoBuy(ss, u, t, cfg)]
                ELSE IF sig.action = "SELL"
                THEN \E id \in (IF ids = {} THEN {0} ELSE ids) :
                        sess' = [sess EXCEPT !["auto"] = AutoSell(ss, u, t, cfg, id)]
                ELSE sess' = [sess EXCEPT !["auto"].result = "hold"]
  /\ UNCHANGED <<dbVars, sched>>

(* --------------------------- specifications --------------------------- *)
Init ==
  /\ users = {}
  /\ accounts = <<>>
  /\ configs = <<>>
  /\ tickers = {}
  /\ price_ticks = [t \in TickerSet |-> <<>>]
  /\ price_times = [t \in TickerSet |-> <<>>]
  /\ portfolios = <<>>
  /\ nextPortfolioId = 1
  /\ trades = <<>>
  /\ sess = [s \in Sessions |-> IdleSession]
  /\ cycle = IdleCycle
  /\ sched = IdleSched

ApiBusy == sess["api"].pc # "idle"
AutoBusy == cycle.pc # "idle"
\* one API request or one scheduler job at a time, each run to completion
ApiAlone == ~AutoBusy
AutoAlone == ~ApiBusy
SchedAlone == ~ApiBusy /\ ~AutoBusy

Next ==
  \/ \E r \in Registrations : ApiAlone /\ Register(r[1], r[2])
  \/ \E u \in Users, upd \in ConfigUpdates : ApiAlone /\ UpdateAutoConfig(u, upd)
  \/ \E u \in Users, t \in TickerSet, a \in {"BUY", "SELL"}, q \in Quantities :
        ApiAlone /\ CreateTrade(u, t, a, q)
  \/ \E u \in Users : ApiAlone /\ GetPortfolio(u)
  \/ ApiAlone /\ SessBuyAccount("api")
  \/ ApiAlone /\ SessBuyPortfolio("api")
  \/ ApiAlone /\ SessSellPortfolio("api")
  \/ ApiAlone /\ SessSellAccount("api")
  \/ ApiAlone /\ Commit("api")
  \/ ApiAlone /\ Respond
  \/ AutoAlone /\ AutoStart(MaxCycles)
  \/ AutoAlone /\ AutoUser
  \/ \E sig \in Signals : AutoAlone /\ AutoTicker(sig)
  \/ AutoAlone /\ SessExecPrice("auto")
  \/ AutoAlone /\ SessBuyAccount("auto")
  \/ AutoAlone /\ SessBuyPortfolio("auto")
  \/ AutoAlone /\ SessSellPortfolio("auto")
  \/ AutoAlone /\ SessSellAccount("auto")
  \/ AutoAlone /\ Commit("auto")
  \/ SchedAlone /\ InitializeTickers
  \/ SchedAlone /\ BackfillTicker
  \/ SchedAlone /\ BackfillPoint(BackfillDraws)
  \/ SchedAlone /\ BackfillRest
  \/ SchedAlone /\ SimulatePriceTick(TickDraws)

Spec == Init /\ [][Next]_vars

\* A running deployment: the scheduler has bootstrapped (every ticker
\* backfilled along the flat path) and runs its jobs, u1 is registered and
\* has enabled auto-trading, u2's registration stopped after the user row.
RunningSched == [IdleSched EXCEPT !.phase = "running"]
InitConc ==
  /\ users = Users
  /\ accounts = ("u1" :> INITIAL_CASH)
  /\ configs \in
       { ("u1" :> [enabled |-> TRUE, confidence_threshold |-> DEFAULT_THRESHOLD,
                   max_trade_size |-> DEFAULT_MAX_TRADE_SIZE]),
         ("u1" :> [enabled |-> TRUE, confidence_threshold |-> 80,
                   max_trade_size |-> 20]) }
  /\ tickers = TickerSet
  /\ price_ticks = [t \in TickerSet |-> [i \in 1..HistPoints |-> InitialPrice(t)]]
  /\ price_times = [t \in TickerSet |-> HistTimes(0)]
  /\ portfolios = <<>>
  /\ nextPortfolioId = 1
  /\ trades = <<>>
  /\ sess = [s \in Sessions |-> IdleSession]
  /\ cycle = IdleCycle
  /\ sched = RunningSched

\* the API process and the scheduler's jobs interleave statement by
\* statement
NextConc ==
  \/ \E u \in Users, t \in TickerSet, a \in {"BUY", "SELL"}, q \in Quantities :
        CreateTrade(u, t, a, q)
  \/ \E u \in Users : GetPortfolio(u)
  \/ SessBuyAccount("api")
  \/ SessBuyPortfolio("api")
  \/ SessSellPortfolio("api")
  \/ SessSellAccount("api")
  \/ Commit("api")
  \/ Respond
  \/ AutoStart(MaxCycles)
  \/ AutoUser
  \/ \E sig \in Signals : AutoTicker(sig)
  \/ SessExecPrice("auto")
  \/ SessBuyAccount("auto")
  \/ SessBuyPortfolio("auto")
  \/ SessSellPortfolio("auto")
  \/ SessSellAccount("auto")
  \/ Commit("auto")
  \/ SimulatePriceTick(TickDraws)

SpecConc == InitConc /\ [][NextConc]_vars

\* The auto-trading cycle on its own, in a deployment with two accounts of
\* 10000.00 whose configs were set through update_auto_config: u1 with
\* threshold 0.80 and size 20, u2 with threshold 0.70 and size 5, each
\* enabled or not.  The price-tick job runs beside the cycle (the scheduler
\* runs its jobs in a thread pool); no API request does.
InitAuto ==
  /\ users = Users
  /\ accounts = [u \in Users |-> INITIAL_CASH]
  /\ configs \in
       {[u \in Users |->
           IF u = "u1"
           THEN [enabled |-> e[1], confidence_threshold |-> 80,
                 max_trade_size |-> 20]
           ELSE [enabled |-> e[2], confidence_threshold |-> DEFAULT_THRESHOLD,
                 max_trade_size |-> DEFAULT_MAX_TRADE_SIZE]] :
        e \in BOOLEAN \X BOOLEAN}
  /\ tickers = TickerSet
  /\ price_ticks = [t \in TickerSet |-> <<InitialPrice(t)>>]
  /\ price_times = [t \in TickerSet |-> <<HistSpan>>]
  /\ portfolios = <<>>
  /\ nextPortfolioId = 1
  /\ trades = <<>>
  /\ sess = [s \in Sessions |-> IdleSession]
  /\ cycle = IdleCycle
  /\ sched = RunningSched

NextAuto ==
  \/ AutoStart(AutoCycles)
  \/ AutoUser
  \/ \E sig \in Signals : AutoTicker(sig)
  \/ SessExecPrice("auto")
  \/ SessBuyAccount("auto")
  \/ SessBuyPortfolio("auto")
  \/ SessSellPortfolio("auto")
  \/ SessSellAccount("auto")
  \/ Commit("auto")
  \/ SimulatePriceTick(TickDraws)

SpecAuto == InitAuto /\ [][NextAuto]_vars

\* main.py:31-39: a started cycle runs in one job thread until it returns,
\* one statement after the other
AutoRun ==
  \/ AutoUser
  \/ \E sig \in Signals : AutoTicker(sig)
  \/ SessExecPrice("auto")
  \/ SessBuyAccount("auto")
  \/ SessBuyPortfolio("auto")
  \/ SessSellPortfolio("auto")
  \/ SessSellAccount("auto")
  \/ Commit("auto")

SpecAutoFair == InitAuto /\ [][NextAuto]_vars /\ WF_vars(AutoRun)

\* The auto-trading cycles with no other writer: no API request and no
\* price tick between the statements of a cycle or between two cycles.
NextAutoAlone == AutoStart(AutoCycles) \/ AutoRun

SpecAutoAlone == InitAuto /\ [][NextAutoAlone]_vars

\* The price simulator on its own: the scheduler process is started on a
\* store that is empty or that earlier runs have filled, or its tick job is
\* invoked on such a store, with the extreme draws.  (The bootstrap gives
\* every ticker its history before the first tick job, so a running
\* scheduler meets a ticker without history only on a store filled by other
\* means.)
InitSim ==
  /\ users = {}
  /\ accounts = <<>>
  /\ configs = <<>>
  /\ tickers \in {{}, TickerSet}
  /\ price_ticks \in
       [TickerSet -> {<<>>} \cup {<<p>> : p \in SeedPrices}]
  /\ tickers = {} => \A t \in TickerSet : price_ticks[t] = <<>>
  /\ price_times = [t \in TickerSet |-> [i \in 1..Len(price_ticks[t]) |-> 0]]
  /\ portfolios = <<>>
  /\ nextPortfolioId = 1
  /\ trades = <<>>
  /\ sess = [s \in Sessions |-> IdleSession]
  /\ cycle = IdleCycle
  /\ sched \in {IdleSched, RunningSched}

NextSim ==
  \/ InitializeTickers
  \/ BackfillTicker
  \/ BackfillPoint(SimBackfillDraws)
  \/ BackfillRest
  \/ SimulatePriceTick(SimDraws)
  \/ StartScheduler

SpecSim == InitSim /\ [][NextSim]_vars

\* the price simulator with jobs that may fail on a ticker
NextSimRaises ==
  \/ InitializeTickers
  \/ BackfillTicker
  \/ BackfillPoint(SimBackfillDraws)
  \/ BackfillRest
  \/ BackfillRaises
  \/ SimulatePriceTick(SimDraws)
  \/ SimulatePriceTickRaises
  \/ StartScheduler

SpecSimRaises == InitSim /\ [][NextSimRaises]_vars

\* The signal engine alone: get_claude_prediction is a function of the
\* indicator snapshot and of what the advisory service does; every
\* behaviour draws both and applies it.
InitSignal ==
  /\ users = {}
  /\ accounts = <<>>
  /\ configs = <<>>
  /\ tickers = {}
  /\ price_ticks = [t \in TickerSet |-> <<>>]
  /\ price_times = [t \in TickerSet |-> <<>>]
  /\ portfolios = <<>>
  /\ nextPortfolioId = 1
  /\ trades = <<>>
  /\ sess = [s \in Sessions |-> IdleSession]
  /\ cycle \in { [IdleCycle EXCEPT !.indicators = indicators,
                                    !.response = response] :
                    indicators \in IndicatorInputs, response \in Responses }
  /\ sched = IdleSched

NextSignal == CallGetClaudePrediction

SpecSignal == InitSignal /\ [][NextSignal]_vars

\* The indicator engine alone: get_technical_indicators is a function of
\* the ticker's price ticks; every behaviour draws the series of TSLA
\* (NVDA has none) and applies it.
InitIndicators ==
  /\ users = {}
  /\ accounts = <<>>
  /\ configs = <<>>
  /\ tickers = TickerSet
  /\ price_ticks \in { [t \in TickerSet |-> IF t = "TSLA" THEN series ELSE <<>>] :
                          series \in SeriesInputs }
  /\ price_times = [t \in TickerSet |->
                      [i \in 1..Len(price_ticks[t]) |->
                         (i - 1) * HISTORICAL_INTERVAL_MINUTES]]
  /\ portfolios = <<>>
  /\ nextPortfolioId = 1
  /\ trades = <<>>
  /\ sess = [s \in Sessions |-> IdleSession]
  /\ cycle = IdleCycle
  /\ sched = RunningSched

NextIndicators == \E t \in TickerSet : CallGetTechnicalIndicators(t)

SpecIndicators == InitIndicators /\ [][NextIndicators]_vars

(* ======================= properties of the ledger ===================== *)
\* sum of total_amount over the first n trades of user u with the action
RECURSIVE TradeSum(_, _, _, _)
TradeSum(log, n, u, action) ==
  IF n = 0 THEN 0
  ELSE TradeSum(log, n - 1, u, action)
       + (IF log[n].user_id = u /\ log[n].action = action
          THEN log[n].total_amount ELSE 0)

\* BUY quantities minus SELL quantities over the first n trades of (u, t)
RECURSIVE NetQuantity(_, _, _, _)
NetQuantity(log, n, u, t) ==
  IF n = 0 THEN 0
  ELSE NetQuantity(log, n - 1, u, t)
       + (IF log[n].user_id = u /\ log[n].ticker_id = t
          THEN (IF log[n].action = "BUY" THEN log[n].quantity
                ELSE -log[n].quantity)
          ELSE 0)

\* the cash the trade log accounts for
CashFromTrades(u) ==
  INITIAL_CASH - TradeSum(trades, Len(trades), u, "BUY")
               + TradeSum(trades, Len(trades), u, "SELL")

\* a step that commits one trade, and that trade
TradeCommitted == Len(trades') = Len(trades) + 1
CommittedTrade == trades'[Len(trades')]

\* C1: under sequential execution an account's cash_balance always equals
\* the 10000 it was created with, minus the total_amount of its BUY trades,
\* plus the total_amount of its SELL trades; failed operations leave it alone
C1_CashConservation ==
  \A u \in DOMAIN accounts : accounts[u] = CashFromTrades(u)

\* a BUY and a later SELL at a higher price are committed
C1_Witness ==
  /\ Len(trades) = 2
  /\ trades[1].action = "BUY" /\ trades[2].action = "SELL"
  /\ trades[1].user_id = "u1" /\ trades[2].user_id = "u1"
  /\ trades[2].price > trades[1].price
  /\ accounts["u1"] # INITIAL_CASH

\* the quantities the trade log accounts for
QuantityFromTrades(u, t) == NetQuantity(trades, Len(trades), u, t)

\* C2: a user-initiated trade and a trade of a running auto-trading cycle on
\* the same account serialize: once both are committed, the cash_balance and
\* the position quantity are what the committed trades give in some serial
\* order, that is the initial balance and no holding with every trade's cash
\* and quantity delta applied
C2_TradesSerialize ==
  \A u \in DOMAIN accounts :
    (sess["api"].pc \in {"idle", "done"} /\ sess["auto"].pc = "idle")
      => /\ accounts[u] = CashFromTrades(u)
         /\ \A t \in TickerSet :
              \A id \in PositionIds(u, t) :
                portfolios[id].quantity = QuantityFromTrades(u, t)

\* C3: in every reachable state the held quantity of every (account,
\* instrument) pair, 0 when no row exists, is the pair's BUY quantities minus
\* its SELL quantities, and is never negative
C3_QuantityIsNetOfTrades ==
  \A u \in Users : \A t \in TickerSet :
    /\ PositionIds(u, t) = {} => QuantityFromTrades(u, t) = 0
    /\ \A id \in PositionIds(u, t) :
         /\ portfolios[id].quantity = QuantityFromTrades(u, t)
         /\ portfolios[id].quantity >= 0

\* the held quantity of (u, t) in a portfolios table: 0 when no row exists
QuantityIn(pf, u, t) ==
  LET ids == {id \in DOMAIN pf : pf[id].user_id = u /\ pf[id].ticker_id = t}
  IN IF ids = {} THEN 0 ELSE pf[CHOOSE id \in ids : TRUE].quantity

\* execute_buy reaches its funds check in session s during this step
FundsChecked(s) ==
  /\ sess[s].pc = "buy_account"
  /\ sess'[s].pc # "buy_account"
  /\ sess[s].user \in DOMAIN accounts

\* C4: after any sequence of buys and sells every cash_balance is >= 0; a
\* BUY is applied only when the balance covers price * quantity, and a BUY
\* whose cost equals the balance exactly succeeds and leaves 0
C4_CashNeverNegative ==
  /\ [](\A u \in DOMAIN accounts : accounts[u] >= 0)
  /\ [][(TradeCommitted /\ CommittedTrade.action = "BUY")
          => LET tr == CommittedTrade
             IN /\ tr.quantity > 0 /\ tr.price > 0
                /\ accounts[tr.user_id] >= tr.price * tr.quantity
                /\ accounts'[tr.user_id]
                     = accounts[tr.user_id] - tr.price * tr.quantity]_vars
  /\ [][\A s \in Sessions :
          (FundsChecked(s)
             /\ accounts[sess[s].user] = sess[s].price * sess[s].quantity)
            => sess'[s].pc = "buy_portfolio"]_vars

\* a BUY that cost the whole balance is committed
C4_Witness ==
  /\ Len(trades) >= 1
  /\ trades[Len(trades)].action = "BUY"
  /\ trades[Len(trades)].cash_after = 0
  /\ accounts[trades[Len(trades)].user_id] = 0

\* a step that changes the cash_balance of an existing account
CashChanged == \E u \in DOMAIN accounts : accounts'[u] # accounts[u]
\* a step that changes the quantity held of some pair
QuantityChanged ==
  \E u \in Users : \E t \in TickerSet :
    QuantityIn(portfolios', u, t) # QuantityIn(portfolios, u, t)

\* a session between two operations holds nothing a later commit would write
NothingPending(ss) ==
  /\ ss.inserts = <<>> /\ ss.newTrades = <<>>
  /\ ss.acct.cash = ss.acct.orig
  /\ \A id \in DOMAIN ss.pfs : ~Changed(ss.pfs[id]) /\ ~ss.pfs[id].deleted

\* C5: buy and sell are all-or-nothing: a step changes a cash_balance or a
\* held quantity exactly when it commits the TradeRecord of the same
\* operation, with exactly that trade's cash and quantity deltas; a failed
\* operation leaves nothing in its session for a later commit to persist
C5_AllOrNothing ==
  /\ [](\A s \in Sessions :
          sess[s].pc \in {"idle", "done"} => NothingPending(sess[s]))
  /\ [][/\ trades' # trades
           => TradeCommitted /\ SubSeq(trades', 1, Len(trades)) = trades
        /\ (CashChanged \/ QuantityChanged) <=> TradeCommitted
        /\ TradeCommitted
           => LET tr == CommittedTrade
                  sign == IF tr.action = "BUY" THEN 1 ELSE -1
              IN /\ tr.user_id \in DOMAIN accounts
                 /\ accounts' = [accounts EXCEPT ![tr.user_id] =
                                   @ - sign * tr.total_amount]
                 /\ tr.cash_after = accounts'[tr.user_id]
                 /\ \A u \in Users : \A t \in TickerSet :
                      QuantityIn(portfolios', u, t)
                        = QuantityIn(portfolios, u, t)
                          + (IF u = tr.user_id /\ t = tr.ticker_id
                             THEN sign * tr.quantity ELSE 0)]_vars

\* after a committed trade, a SELL of a user whose Account row is missing
\* has failed
C5_Witness ==
  /\ Len(trades) >= 1
  /\ sess["api"].pc = "done"
  /\ sess["api"].action = "SELL"
  /\ sess["api"].user \in users \ DOMAIN accounts
  /\ sess["api"].result \notin {"ok", "TickerNotFound"}

\* C6: a BUY whose cost price * quantity exceeds the cash_balance fails with
\* the insufficient-funds error and leaves the cash_balance, every position
\* and the trade log unchanged
C6_InsufficientFunds ==
  /\ [][\A s \in Sessions :
          (FundsChecked(s)
             /\ sess[s].price * sess[s].quantity > accounts[sess[s].user])
            => /\ sess'[s].result = "InsufficientFunds"
               /\ sess'[s].pc \in {"idle", "done"}
               /\ NothingPending(sess'[s])
               /\ UNCHANGED ledgerVars]_vars
  /\ [](\A s \in Sessions :
          sess[s].pc \in {"buy_account", "buy_portfolio"}
            => NothingPending([sess[s] EXCEPT !.acct = NoAccount]))

\* a BUY was refused for insufficient funds
C6_Witness ==
  /\ sess["api"].pc = "done"
  /\ sess["api"].action = "BUY"
  /\ sess["api"].result = "InsufficientFunds"
  /\ sess["api"].user \in DOMAIN accounts
  /\ LatestPrice(sess["api"].ticker) * sess["api"].quantity
       > accounts[sess["api"].user]

\* execute_sell reaches its position lookup in session s during this step
SharesChecked(s) ==
  /\ sess[s].pc = "sell_portfolio"
  /\ sess'[s].pc # "sell_portfolio"

\* the operation of session s has failed with err and changed nothing
FailedWith(s, err) ==
  /\ sess'[s].result = err
  /\ sess'[s].pc \in {"idle", "done"}
  /\ NothingPending(sess'[s])
  /\ UNCHANGED ledgerVars

\* C7: a SELL for a pair with no position fails with the no-position error,
\* a SELL of more than the held quantity fails with the insufficient-shares
\* error; both leave the quantity, the cash_balance and the trade log
\* unchanged
C7_SellRejected ==
  /\ [][\A s \in Sessions :
          SharesChecked(s)
            => LET u == sess[s].user
                   t == sess[s].ticker
               IN /\ PositionIds(u, t) = {} => FailedWith(s, "NoPosition")
                  /\ (PositionIds(u, t) # {}
                        /\ sess[s].quantity > HeldQuantity(u, t))
                       => FailedWith(s, "InsufficientShares")]_vars
  /\ [](\A s \in Sessions :
          sess[s].pc = "sell_portfolio" => NothingPending(sess[s]))

\* a SELL of more than the held quantity was refused
C7_Witness ==
  /\ sess["api"].pc = "done"
  /\ sess["api"].action = "SELL"
  /\ sess["api"].result = "InsufficientShares"
  /\ HeldQuantity(sess["api"].user, sess["api"].ticker) > 0
  /\ sess["api"].quantity > HeldQuantity(sess["api"].user, sess["api"].ticker)

\* create_trade hands an order on a known instrument to execute_buy or
\* execute_sell during this step
OrderPlaced ==
  /\ sess["api"].pc = "idle"
  /\ sess'["api"].action \in {"BUY", "SELL"}
  /\ sess'["api"].ticker \in tickers

\* C8: a buy or sell on an instrument without a PricePoint fails with the
\* no-pricing-data error before any other validation and leaves cash,
\* positions and the trade log unchanged; once a PricePoint of the instrument
\* exists, the order is no longer rejected for that reason
C8_NoPricingData ==
  /\ [][OrderPlaced
          => IF HasPrice(sess'["api"].ticker)
             THEN sess'["api"].result # "NoPricingData"
             ELSE FailedWith("api", "NoPricingData")]_vars
  /\ [][(sess["auto"].pc = "exec_price" /\ sess'["auto"].pc # "exec_price")
          => IF HasPrice(sess["auto"].ticker)
             THEN sess'["auto"].result # "NoPricingData"
             ELSE FailedWith("auto", "NoPricingData")]_vars
  /\ [][\A t \in tickers : HasPrice(t) => Len(price_ticks'[t]) > 0]_vars

\* the order of a user without an Account row was refused for the missing
\* price
C8_Witness ==
  /\ sess["api"].pc = "done"
  /\ sess["api"].result = "NoPricingData"
  /\ sess["api"].action = "BUY"
  /\ sess["api"].user \in users \ DOMAIN accounts
  /\ sess["api"].ticker \in tickers
  /\ ~HasPrice(sess["api"].ticker)

\* C9: selling exactly the held quantity removes the Position row, so no
\* row ever has quantity 0; a partial sell keeps the row with the
\* decremented quantity
C9_NoEmptyPosition ==
  /\ [](\A id \in DOMAIN portfolios : portfolios[id].quantity # 0)
  /\ [][(TradeCommitted /\ CommittedTrade.action = "SELL")
          => LET tr == CommittedTrade
                 ids == PositionIds(tr.user_id, tr.ticker_id)
             IN /\ ids # {}
                /\ \A id \in ids :
                     IF portfolios[id].quantity = tr.quantity
                     THEN id \notin DOMAIN portfolios'
                     ELSE /\ id \in DOMAIN portfolios'
                          /\ portfolios'[id].quantity
                               = portfolios[id].quantity - tr.quantity
                          /\ portfolios'[id].quantity > 0]_vars

\* a BUY and then a SELL of the whole holding: the row is gone
C9_Witness ==
  /\ Len(trades) = 2
  /\ trades[1].action = "BUY" /\ trades[2].action = "SELL"
  /\ trades[1].user_id = trades[2].user_id
  /\ trades[1].ticker_id = trades[2].ticker_id
  /\ trades[1].quantity = trades[2].quantity
  /\ PositionIds(trades[1].user_id, trades[1].ticker_id) = {}

\* C10: a BUY of q at p on an existing position (old_qty, old_avg) sets the
\* quantity to old_qty + q and the average cost to
\* (old_avg*old_qty + p*q)/(old_qty + q); a BUY without a position creates
\* it with average cost p; so two BUYs (q1,p1), (q2,p2) from no position give
\* (q1*p1 + q2*p2)/(q1 + q2)
C10_AverageCost ==
  /\ [][(TradeCommitted /\ CommittedTrade.action = "BUY")
          => LET tr == CommittedTrade
                 ids == PositionIds(tr.user_id, tr.ticker_id)
                 now == {id \in DOMAIN portfolios' :
                           /\ portfolios'[id].user_id = tr.user_id
                           /\ portfolios'[id].ticker_id = tr.ticker_id}
             IN /\ Cardinality(now) = 1
                /\ \A id \in now :
                     IF ids = {}
                     THEN /\ portfolios'[id].quantity = tr.quantity
                          /\ portfolios'[id].avg_price = <<tr.price, 1>>
                     ELSE /\ id \in ids
                          /\ portfolios'[id].quantity
                               = portfolios[id].quantity + tr.quantity
                          /\ portfolios'[id].avg_price
                               = Rat(portfolios[id].avg_price[1]
                                       * portfolios[id].quantity
                                     + tr.price * tr.quantity
                                       * portfolios[id].avg_price[2],
                                     portfolios[id].avg_price[2]
                                       * (portfolios[id].quantity + tr.quantity))]_vars
  /\ []((/\ Len(trades) = 2
         /\ trades[1].action = "BUY" /\ trades[2].action = "BUY"
         /\ trades[1].user_id = trades[2].user_id
         /\ trades[1].ticker_id = trades[2].ticker_id)
        => \A id \in PositionIds(trades[1].user_id, trades[1].ticker_id) :
             portfolios[id].avg_price
               = Rat(trades[1].quantity * trades[1].price
                       + trades[2].quantity * trades[2].price,
                     trades[1].quantity + trades[2].quantity))

\* two BUYs of one pair at different prices
C10_Witness ==
  /\ Len(trades) = 2
  /\ trades[1].action = "BUY" /\ trades[2].action = "BUY"
  /\ trades[1].user_id = trades[2].user_id
  /\ trades[1].ticker_id = trades[2].ticker_id
  /\ trades[1].price # trades[2].price
  /\ trades[1].quantity # trades[2].quantity
  /\ PositionIds(trades[1].user_id, trades[1].ticker_id) # {}

\* C11: a SELL that leaves a positive quantity leaves the position's
\* avg_price unchanged; the avg_price of a row changes only in the commit
\* of a BUY of its pair
C11_AverageCostFrame ==
  [][\A id \in DOMAIN portfolios :
       id \in DOMAIN portfolios'
         => /\ portfolios'[id].avg_price # portfolios[id].avg_price
                 => /\ TradeCommitted
                    /\ CommittedTrade.action = "BUY"
                    /\ CommittedTrade.user_id = portfolios[id].user_id
                    /\ CommittedTrade.ticker_id = portfolios[id].ticker_id
            /\ (TradeCommitted /\ CommittedTrade.action = "SELL")
                 => portfolios'[id].avg_price = portfolios[id].avg_price]_vars

\* a BUY, then a partial SELL at another price: the row keeps the BUY's
\* price as its average
C11_Witness ==
  /\ Len(trades) = 2
  /\ trades[1].action = "BUY" /\ trades[2].action = "SELL"
  /\ trades[1].user_id = trades[2].user_id
  /\ trades[1].ticker_id = trades[2].ticker_id
  /\ trades[2].price # trades[1].price
  /\ trades[2].quantity < trades[1].quantity
  /\ \E id \in PositionIds(trades[1].user_id, trades[1].ticker_id) :
       /\ portfolios[id].avg_price = <<trades[1].price, 1>>
       /\ portfolios[id].current_price = trades[2].price

\* C12: in every reachable state there is at most one portfolios row per
\* (user, ticker) pair, also when two BUYs of a pair without a position run
\* concurrently (a user's trade and the auto-trading cycle)
C12_OnePositionPerPair ==
  \A u \in Users : \A t \in TickerSet : Cardinality(PositionIds(u, t)) <= 1

\* the buy or sell of session s ends in this step
OperationEnds(s) ==
  /\ sess[s].pc \notin {"done"}
  /\ sess'[s].pc \in {"idle", "done"}
  /\ sess'[s] # sess[s]
  /\ sess'[s].result \notin {"none", "filtered", "hold", "skipped"}
  /\ s = "auto" => sess[s].pc # "idle"

\* C13: the trade log is append-only: a successful buy or sell appends
\* exactly one TradeRecord, its own, a failed one appends none, and no step
\* of any operation (portfolio refresh, auto-trading cycle, price tick
\* included) modifies or removes an existing TradeRecord
C13_TradesAppendOnly ==
  [][/\ Len(trades') \in {Len(trades), Len(trades) + 1}
     /\ SubSeq(trades', 1, Len(trades)) = trades
     /\ \A s \in Sessions :
          OperationEnds(s)
            => IF sess'[s].result = "ok"
               THEN /\ TradeCommitted
                    /\ CommittedTrade.user_id = sess[s].user
                    /\ CommittedTrade.ticker_id = sess[s].ticker
                    /\ CommittedTrade.action = sess[s].action
                    /\ CommittedTrade.quantity = sess[s].quantity
               ELSE trades' = trades
     /\ TradeCommitted
          => \E s \in Sessions :
               OperationEnds(s) /\ sess'[s].result = "ok"]_vars

\* a second trade is committed after a different first one
C13_Witness ==
  /\ Len(trades) = 2
  /\ sess["api"].pc = "done"
  /\ sess["api"].result = "ok"
  /\ trades[2].user_id = sess["api"].user
  /\ trades[2].action = sess["api"].action
  /\ trades[1] # trades[2]

(* ================= properties of the auto-trading cycle =============== *)
\* process_auto_trading obtains the signal of the next (user, ticker) pair
\* in this step
PairEvaluated ==
  /\ cycle.pc = "ticker"
  /\ cycle.tq # <<>>
  /\ cycle'.tq # cycle.tq

\* the threshold of the account whose pair the cycle is at
PairThreshold(c) == configs[c.pair[1]].confidence_threshold

\* C14: in an auto-trading cycle no trade is executed for a pair whose
\* signal confidence is strictly below the account's confidence_threshold
\* (threshold 0.80, confidence 0.75)
C14_BelowThresholdNoTrade ==
  /\ [][(PairEvaluated
           /\ cycle'.signal.confidence < PairThreshold(cycle'))
          => /\ sess'["auto"].pc = "idle"
             /\ sess'["auto"].result = "filtered"
             /\ UNCHANGED ledgerVars]_vars
  /\ [](sess["auto"].pc # "idle"
          => /\ <<sess["auto"].user, sess["auto"].ticker>> = cycle.pair
             /\ cycle.signal.confidence >= PairThreshold(cycle))
  /\ [][TradeCommitted
          => /\ <<CommittedTrade.user_id, CommittedTrade.ticker_id>> = cycle.pair
             /\ CommittedTrade.action = cycle.signal.action
             /\ cycle.signal.confidence >= PairThreshold(cycle)]_vars

\* a BUY signal of confidence 0.75 for the account with threshold 0.80 was
\* filtered out
C14_Witness ==
  /\ cycle.pc = "ticker"
  /\ cycle.pair[1] = "u1"
  /\ configs["u1"].confidence_threshold = 80
  /\ cycle.signal = [action |-> "BUY", confidence |-> 75]
  /\ sess["auto"].result = "filtered"
  /\ sess["auto"].pc = "idle"

\* the size process_auto_trading computes for the pair and the signal
PairSize(u, t, action) ==
  IF action = "BUY"
  THEN Min(configs[u].max_trade_size, accounts[u] \div LatestPrice(t))
  ELSE Min(configs[u].max_trade_size, HeldQuantity(u, t))

\* C15: a signal whose confidence equals the account's threshold is not
\* filtered out: a BUY or SELL signal at the threshold is sized and, when
\* the size is positive, execute_buy / execute_sell is called with it
C15_AtThresholdProceeds ==
  [][(PairEvaluated
        /\ cycle'.signal.confidence = PairThreshold(cycle')
        /\ cycle'.signal.action \in {"BUY", "SELL"})
       => LET u == cycle'.pair[1]
              t == cycle'.pair[2]
              size == PairSize(u, t, cycle'.signal.action)
          IN /\ sess'["auto"].result # "filtered"
             /\ size > 0
                  => /\ sess'["auto"].pc = "exec_price"
                     /\ sess'["auto"].action = cycle'.signal.action
                     /\ sess'["auto"].user = u
                     /\ sess'["auto"].ticker = t
                     /\ sess'["auto"].quantity = size
             /\ size <= 0 => sess'["auto"].result = "skipped"]_vars

\* a BUY signal of confidence 0.80 for the account with threshold 0.80 was
\* executed
C15_Witness ==
  /\ cycle.pc = "ticker"
  /\ cycle.pair[1] = "u1"
  /\ configs["u1"].confidence_threshold = 80
  /\ cycle.signal = [action |-> "BUY", confidence |-> 80]
  /\ sess["auto"].pc = "idle"
  /\ sess["auto"].result = "ok"
  /\ Len(trades) >= 1
  /\ <<trades[Len(trades)].user_id, trades[Len(trades)].ticker_id>> = cycle.pair

\* what execute_buy / execute_sell fail with
ExecutionErrors ==
  {"NoPricingData", "AccountNotFound", "InsufficientFunds", "NoPosition",
   "InsufficientShares", "InternalError", "StaleData"}

\* the execution for the cycle's pair fails in this step
ExecutionFails ==
  /\ sess["auto"].pc # "idle"
  /\ sess'["auto"].pc # sess["auto"].pc
  /\ sess'["auto"].result \in ExecutionErrors

\* C16: an execution failure for one pair does not abort the cycle: the
\* cycle goes on at the same place with every remaining pair still queued,
\* trades committed for earlier pairs stay, and a cycle ends only when no
\* pair is left
C16_FailureDoesNotAbort ==
  /\ [][ExecutionFails
          => /\ sess'["auto"].pc = "idle"
             /\ cycle'.pc = "ticker"
             /\ cycle'.tq = cycle.tq
             /\ cycle'.queue = cycle.queue
             /\ cycle'.user = cycle.user
             /\ trades' = trades]_vars
  /\ [][(cycle.pc = "ticker" /\ cycle'.tq # cycle.tq)
          => /\ cycle.tq # <<>>
             /\ cycle'.tq = Tail(cycle.tq)
             /\ cycle'.pair = <<cycle.user, Head(cycle.tq)>>]_vars
  /\ [][(cycle.pc = "ticker" /\ cycle'.pc # "ticker")
          => cycle.tq = <<>> /\ cycle'.pc = "user"]_vars
  /\ [][(cycle.pc = "user" /\ cycle'.pc = "idle") => cycle.queue = <<>>]_vars
  /\ [][SubSeq(trades', 1, Len(trades)) = trades]_vars

\* after a committed trade of the cycle, the execution for a later pair has
\* failed and the cycle is still at its ticker loop
C16_Witness ==
  /\ sess["auto"].pc = "idle"
  /\ sess["auto"].result \in ExecutionErrors
  /\ cycle.pc = "ticker"
  /\ Len(trades) >= 1
  /\ trades[Len(trades)].user_id = cycle.user
  /\ trades[Len(trades)].ticker_id # cycle.pair[2]

\* process_auto_trading fetches the configs in this step
ConfigsFetched == cycle.pc = "idle" /\ sched'.cycles # sched.cycles

\* C17: a cycle never trades for an account whose config is not enabled
\* when the cycle fetches the configs; when no config is enabled the cycle
\* ends at once and changes no cash_balance, position or trade
C17_DisabledNeverTraded ==
  /\ [][ConfigsFetched
          => IF EnabledConfigs = {}
             THEN cycle'.pc = "idle" /\ UNCHANGED dbVars
             ELSE /\ DOMAIN cycle'.cfgs = {u \in Users : u \in DOMAIN configs
                                                        /\ configs[u].enabled}
                  /\ UNCHANGED dbVars]_vars
  /\ [](cycle.pc = "idle" => sess["auto"].pc = "idle")
  /\ [](sess["auto"].pc # "idle" => sess["auto"].user \in DOMAIN cycle.cfgs)
  /\ [][(TradeCommitted /\ sess["auto"].pc = "commit")
          => CommittedTrade.user_id \in DOMAIN cycle.cfgs]_vars
  /\ [][cycle'.pc # "idle" /\ cycle.pc # "idle"
          => DOMAIN cycle'.cfgs = DOMAIN cycle.cfgs]_vars

\* a cycle that traded is over; the account with the disabled config has
\* its 10000.00 and no trade
C17_Witness ==
  /\ cycle.pc = "idle"
  /\ sched.cycles >= 1
  /\ Len(trades) >= 1
  /\ configs["u1"].enabled /\ ~configs["u2"].enabled
  /\ accounts["u2"] = INITIAL_CASH
  /\ \A i \in 1..Len(trades) : trades[i].user_id = "u1"

(* ================== properties of the price simulator ================= *)
\* the ticker generate_historical_data is at
BackfillAt == TickerOrder[sched.idx]

\* C18: backfill is idempotent per instrument: invoked on an instrument
\* that has at least one PricePoint it appends nothing; the only points a
\* backfill appends go to an instrument that had none when this invocation
\* reached it, so a second call leaves the point count of the first
C18_BackfillIdempotent ==
  /\ [][(/\ sched.phase = "backfill"
         /\ ~sched.loop
         /\ sched.idx <= Len(TickerOrder)
         /\ sched' # sched
         /\ sched'.phase = "backfill"
         /\ HasPrice(BackfillAt))
          => /\ ~sched'.loop
             /\ sched'.idx = sched.idx + 1
             /\ UNCHANGED price_ticks]_vars
  /\ [][\A t \in TickerSet :
          (sched.phase = "backfill" /\ price_ticks'[t] # price_ticks[t])
            => /\ sched.loop
               /\ t = BackfillAt
               /\ Len(price_ticks[t]) = sched.count - Len(sched.batch)
               /\ Len(price_ticks'[t]) <= HistPoints]_vars

\* the scheduler was started a second time after a complete backfill and
\* its backfill is over: every ticker has the points of the first
C18_Witness ==
  /\ sched.starts = 2
  /\ sched.phase = "running"
  /\ sched.ticks = 0
  /\ tickers = TickerSet
  /\ \A t \in TickerSet : Len(price_ticks[t]) = HistPoints

\* the tick job commits in this step
TickCommitted == sched'.ticks = sched.ticks + 1

\* C19: each invocation of the tick job appends exactly one PricePoint per
\* instrument, computed from the instrument's latest PricePoint, or from its
\* registered initial price when it has none
C19_TickAppendsOne ==
  /\ [][TickCommitted
          => \A t \in TickerSet :
               IF t \in tickers
               THEN LET base == IF price_ticks[t] = <<>> THEN InitialPrice(t)
                                ELSE price_ticks[t][Len(price_ticks[t])]
                        new == price_ticks'[t][Len(price_ticks'[t])]
                    IN /\ Len(price_ticks'[t]) = Len(price_ticks[t]) + 1
                       /\ SubSeq(price_ticks'[t], 1, Len(price_ticks[t]))
                            = price_ticks[t]
                       /\ \E d \in SimDraws : new = TickPrice(base, d)
                       /\ 1000 * Abs(new - base)
                            <= base * (BASE_VOLATILITY + VOLATILITY_RANGE
                                       + MOMENTUM_FACTOR) + 500
               ELSE price_ticks'[t] = price_ticks[t]]_vars
  /\ [][price_ticks' # price_ticks
          => TickCommitted \/ sched.phase = "backfill"]_vars

\* a tick was appended to a ticker without history and to one with a
\* history far from its initial price
C19_Witness ==
  /\ sched.ticks = 1
  /\ tickers = TickerSet
  /\ Len(price_ticks["TSLA"]) = 1
  /\ price_ticks["TSLA"][1] > InitialPrice("TSLA") \div 2
  /\ Len(price_ticks["NVDA"]) = 2
  /\ price_ticks["NVDA"][1] \in SeedPrices

\* C20: every PricePoint appended by backfill or by tick has price > 0, for
\* every draw of volatility, direction and momentum and after any number of
\* steps: a step from a positive price gives a positive price
C20_PricePositive ==
  /\ \A t \in TickerSet : \A i \in 1..Len(price_ticks[t]) :
       price_ticks[t][i] > 0
  /\ sched.price[1] >= 0
  \* the step of a price does not depend on the state of the scheduler: it
  \* is evaluated where the scheduler is started for the first time
  /\ (sched.phase = "boot" /\ sched.starts = 1)
       => \A p \in SeedPrices \cup (MIN_PRICE .. MIN_PRICE + 10)
                     \cup {InitialPrice(t) : t \in TickerSet} :
            \A d \in SimDraws \cup SimBackfillDraws :
              /\ TickPrice(p, d) > 0
              /\ RoundCents(StepPrice(RatOfInt(p), d)) > 0
              /\ StepPrice(RatOfInt(p), d)[1] > 0

\* a tick with the largest fall and the momentum kick was taken at the floor
C20_Witness ==
  /\ sched.ticks >= 1
  /\ \E t \in tickers :
       /\ Len(price_ticks[t]) = 2
       /\ price_ticks[t][1] = MIN_PRICE
       /\ price_ticks[t][2] = MIN_PRICE

(* ------------------------ the price series' frame --------------------- *)
\* a is an initial segment of b
PrefixOf(a, b) == Len(a) <= Len(b) /\ SubSeq(b, 1, Len(a)) = a

\* a step of a trading operation: a trade request, a portfolio refresh or
\* the auto-trading cycle moves, or the ledger is written
TradingStep ==
  \/ sess' # sess
  \/ cycle' # cycle
  \/ ledgerVars' # ledgerVars

\* C21: the price simulator only appends price ticks: in every step each
\* ticker's series keeps all its points, in order and unchanged, and new
\* points come after them; the series changes only in a step of the
\* scheduler's backfill or tick, and no step of a trading operation (buy,
\* sell, auto-trading cycle, portfolio refresh) changes it.
C21_PriceTicksAppendOnly ==
  [][ /\ \A t \in TickerSet : PrefixOf(price_ticks[t], price_ticks'[t])
      /\ price_ticks' # price_ticks =>
            /\ sched.phase \in {"backfill", "running"}
            /\ sched' # sched
            /\ ~TradingStep
      /\ TradingStep => price_ticks' = price_ticks ]_vars

\* a tick was added after the backfill, and trades and a portfolio refresh
\* happened around it
C21_Witness ==
  /\ sched.ticks > 0
  /\ \A t \in TickerSet : Len(price_ticks[t]) = HistPoints + sched.ticks
  /\ Len(trades) > 0
  /\ \E id \in DOMAIN portfolios :
       portfolios[id].current_price = LatestPrice(portfolios[id].ticker_id)
         /\ portfolios[id].current_price # InitialPrice(portfolios[id].ticker_id)

(* ------------------------ failures in a price job --------------------- *)
\* C22: a failure while generating the tick or the backfill of one ticker
\* does not abort the other tickers of the same job: when a price tick
\* job ends with a ticker that raised, every other ticker has its new
\* price tick committed, and when the backfill raises on a ticker every
\* other ticker has its history.
C22_FailureIsolated ==
  [][ /\ (sched.phase = "running" /\ sched'.ticks = sched.ticks + 1
            /\ sched'.raised # NoTicker)
          => \A t \in tickers \ {sched'.raised} :
               Len(price_ticks'[t]) = Len(price_ticks[t]) + 1
      /\ (sched.phase = "backfill" /\ sched'.phase = "stopped")
          => \A t \in tickers \ {sched'.raised} :
               Len(price_ticks'[t]) > 0 ]_vars

(* --------------------------- the signal engine ------------------------ *)
\* a prediction was asked for and returned
Predicted == cycle.prediction # NoPrediction

\* the advisory source failed: it is absent (no key), timed out, answered
\* with a status outside 2xx, with an empty content, or with a body that
\* cannot be decoded: not JSON, not a JSON object, or an object whose
\* action is not a string or whose confidence is not a number
AdvisoryFailed(response) ==
  \/ ~response.key
  \/ response.sent = "timeout"
  \/ response.status_code \notin 200..299
  \/ response.body \in {"empty", "undecodable"}
  \/ response.text \in {"invalid", "array"}
  \/ response.action.tag \in {"null", "number"}
  \/ response.confidence.tag \in {"null", "string"}

C24_SignalWellFormed ==
  Predicted
    => /\ cycle.prediction.action \in {"BUY", "SELL", "HOLD"}
       /\ cycle.prediction.confidence \in 0..100

\* the prediction is the rule-based fallback's (no key is configured)
FromFallback == Predicted /\ ~cycle.response.key

\* C25: the rule-based fallback's action is determined by the RSI alone:
\* below 30 it is BUY and above 70 SELL, each with base confidence 0.70
\* (the confidence when nothing confirms, and never less); in every other
\* case (RSI from 30 to 70, both included, or unavailable) it is HOLD with
\* confidence 0.50.
C25_ActionFromRsi ==
  FromFallback =>
    LET rsi == cycle.indicators.rsi_14
        unconfirmed == /\ cycle.indicators.macd_histogram = None
                       /\ cycle.indicators.sma_20 = None
        p == cycle.prediction
    IN /\ Less(rsi, Float(<<30, 1>>))
            => /\ p.action = "BUY"
               /\ p.confidence >= 70
               /\ unconfirmed => p.confidence = 70
       /\ Less(Float(<<70, 1>>), rsi)
            => /\ p.action = "SELL"
               /\ p.confidence >= 70
               /\ unconfirmed => p.confidence = 70
       /\ (~Less(rsi, Float(<<30, 1>>)) /\ ~Less(Float(<<70, 1>>), rsi))
            => /\ p.action = "HOLD"
               /\ p.confidence = 50

\* the fallback held at an RSI of exactly 30, of exactly 70, and without RSI
C25_Witness ==
  /\ FromFallback
  /\ cycle.indicators.rsi_14 \in {Float(<<30, 1>>), Float(<<70, 1>>), None}
  /\ cycle.indicators.macd_histogram = Float(<<1, 2>>)
  /\ cycle.prediction.action = "HOLD"
  /\ cycle.prediction.confidence = 50

\* the MACD histogram is available and confirms the action
MacdConfirms(action, indicators) ==
  LET histogram == indicators.macd_histogram
  IN /\ histogram.tag = "float"
     /\ \/ action = "BUY" /\ histogram.v[1] > 0
        \/ action = "SELL" /\ histogram.v[1] < 0

\* SMA(20) and SMA(50) are both available and their order confirms the
\* action
CrossoverConfirms(action, indicators) ==
  LET sma_20 == indicators.sma_20
      sma_50 == indicators.sma_50
  IN /\ sma_20.tag = "float"
     /\ sma_50.tag = "float"
     /\ \/ action = "BUY" /\ sma_20.v[1] * sma_50.v[2] > sma_50.v[1] * sma_20.v[2]
        \/ action = "SELL" /\ sma_20.v[1] * sma_50.v[2] < sma_50.v[1] * sma_20.v[2]

\* C26: in the rule-based fallback the final confidence of a BUY or SELL is
\* 0.70, plus 0.15 (capped at 0.85) when the MACD histogram is available
\* and confirms the direction, plus 0.10 (capped at 0.90) when SMA(20) and
\* SMA(50) are both available and their crossover confirms it; the reason
\* has one clause for each confirmation; an unavailable indicator adds
\* nothing, never lowers the confidence and never changes the action.
C26_Confirmations ==
  (FromFallback /\ cycle.prediction.action \in {"BUY", "SELL"}) =>
    LET p == cycle.prediction
        macd == MacdConfirms(p.action, cycle.indicators)
        crossover == CrossoverConfirms(p.action, cycle.indicators)
    IN /\ p.confidence = IF macd /\ crossover THEN 90
                          ELSE IF macd THEN 85
                          ELSE IF crossover THEN 80
                          ELSE 70
       /\ Len(p.reason) = 1 + (IF macd THEN 1 ELSE 0)
                             + (IF crossover THEN 1 ELSE 0)
       /\ macd => p.reason[2] \in {"positive MACD momentum",
                                    "negative MACD momentum"}
       /\ crossover => p.reason[Len(p.reason)] \in {"bullish MA crossover",
                                                     "bearish MA crossover"}
       /\ p.action = BaseDecision(cycle.indicators.rsi_14).action

\* RSI 25, histogram +0.5, SMA(20) 110 over SMA(50) 100: BUY at 0.90 with
\* both clauses
C26_Witness ==
  /\ FromFallback
  /\ cycle.indicators.rsi_14 = Float(<<25, 1>>)
  /\ cycle.indicators.macd_histogram = Float(<<1, 2>>)
  /\ cycle.indicators.sma_20 = Float(<<11000, 1>>)
  /\ cycle.indicators.sma_50 = Float(<<10000, 1>>)
  /\ cycle.prediction =
       [action |-> "BUY", confidence |-> 90,
        reason |-> <<"oversold", "positive MACD momentum",
                     "bullish MA crossover">>]

(* -------------------------- the indicator engine ---------------------- *)
\* the indicators of a ticker were computed
IndicatorsOf(t) == cycle.pair = <<NoUser, t>>

\* the number of price ticks the engine reads for a ticker
SeriesRead(t) == Min(Len(price_ticks[t]), LIMIT)

\* C27: for every length L of the series read (0 to the window limit) no
\* indicator raises and each is reported unavailable (None) exactly when L
\* is below its minimum: SMA(n) and EMA(n) below n, RSI(14) below 15, the
\* MACD line, signal and histogram below 26, the Bollinger bands below 20,
\* the volatility below 21; an empty series gives every indicator
\* unavailable.
C27_UnavailableBelowMinimum ==
  \A t \in TickerSet :
    IndicatorsOf(t) =>
      LET L == SeriesRead(t)
          ind == cycle.indicators
      IN /\ (ind.sma_20 = None) <=> (L < 20)
         /\ (ind.sma_50 = None) <=> (L < 50)
         /\ (ind.ema_12 = None) <=> (L < 12)
         /\ (ind.ema_26 = None) <=> (L < 26)
         /\ (ind.rsi_14 = None) <=> (L < 15)
         /\ (ind.macd = None) <=> (L < 26)
         /\ (ind.macd_signal = None) <=> (L < 26)
         /\ (ind.macd_histogram = None) <=> (L < 26)
         /\ (ind.bollinger_upper = None) <=> (L < 20)
         /\ (ind.bollinger_middle = None) <=> (L < 20)
         /\ (ind.bollinger_lower = None) <=> (L < 20)
         /\ (ind.volatility = None) <=> (L < 21)
         /\ L = 0 => ind = NoIndicators

\* exactly 20 points at one price: SMA(20) is that price and the Bollinger
\* bands are there, RSI too, while SMA(50), the MACD and the volatility
\* (21 points) are not
C27_Witness ==
  /\ IndicatorsOf("TSLA")
  /\ Len(price_ticks["TSLA"]) = 20
  /\ Constant(price_ticks["TSLA"])
  /\ cycle.indicators.sma_20 = Float(<<price_ticks["TSLA"][1], 1>>)
  /\ cycle.indicators.bollinger_middle # None
  /\ cycle.indicators.rsi_14 # None
  /\ cycle.indicators.sma_50 = None
  /\ cycle.indicators.macd = None
  /\ cycle.indicators.volatility = None

\* the last 14 deltas of the series read hold no loss
NoLossIn14(prices) ==
  \A i \in (Len(prices) - 13)..Len(prices) : prices[i] >= prices[i - 1]

\* the series read falls at every step
Decreasing(prices) ==
  \A i \in 2..Len(prices) : prices[i] < prices[i - 1]

\* C28: for every series of at least 15 points whose last 14 deltas hold
\* no loss (a rising series, a constant one) RSI(14) is reported as 100;
\* for a falling series it is 0.
C28_RsiAtTheExtremes ==
  \A t \in TickerSet :
    (IndicatorsOf(t) /\ SeriesRead(t) >= 15) =>
      LET prices == TailOf(price_ticks[t], SeriesRead(t))
      IN /\ NoLossIn14(prices) => cycle.indicators.rsi_14 = Float(<<100, 1>>)
         /\ Decreasing(prices) => cycle.indicators.rsi_14 = Float(<<0, 1>>)

(* ---------------------- the trade's resulting balance ----------------- *)
\* the resulting balance of the latest of the first n trades that is the
\* user's, the initial balance when there is none
RECURSIVE BalanceAfter(_, _, _)
BalanceAfter(log, n, u) ==
  IF n = 0 THEN INITIAL_CASH
  ELSE IF log[n].user_id = u THEN log[n].cash_after
  ELSE BalanceAfter(log, n - 1, u)

\* C29: every trade's resulting cash balance is the account's cash_balance
\* right after that trade's commit: the balance of an account is always the
\* resulting balance of its latest trade, and over the consecutive trades
\* of one account each resulting balance is the previous one (the initial
\* balance for the first) minus the total_amount of a BUY, plus that of a
\* SELL.
C29_ResultingBalances ==
  /\ \A u \in DOMAIN accounts :
       accounts[u] = BalanceAfter(trades, Len(trades), u)
  /\ \A k \in 1..Len(trades) :
       LET previous == BalanceAfter(trades, k - 1, trades[k].user_id)
       IN trades[k].cash_after =
            IF trades[k].action = "BUY"
            THEN previous - trades[k].total_amount
            ELSE previous + trades[k].total_amount

(* ------------------------- the size of an auto BUY -------------------- *)
\* C30: for a BUY signal that passes the threshold the auto-trading cycle
\* orders min(max_trade_size, floor(cash_balance / latest price)) shares,
\* with the account's cash balance and the ticker's latest price of that
\* moment; when that size is 0 no execution is attempted and nothing
\* changes for the pair.
C30_BuySize ==
  [][(PairEvaluated
        /\ cycle'.signal.action = "BUY"
        /\ cycle'.signal.confidence >= PairThreshold(cycle')
        /\ HasPrice(cycle'.pair[2]))
       => LET u == cycle'.pair[1]
              t == cycle'.pair[2]
              size == Min(cycle'.cfgs[u].max_trade_size,
                          accounts[u] \div LatestPrice(t))
          IN /\ UNCHANGED dbVars
             /\ size > 0
                  => /\ sess'["auto"].pc = "exec_price"
                     /\ sess'["auto"].action = "BUY"
                     /\ sess'["auto"].quantity = size
             /\ size = 0
                  => /\ sess'["auto"].pc = "idle"
                     /\ sess'["auto"].result = "skipped"]_vars

(* ------------------------- the size of an auto SELL ------------------- *)
\* C31: for a SELL signal that passes the threshold the auto-trading cycle
\* sells min(max_trade_size, quantity of the current position) shares;
\* when the account holds no position in the ticker no execution is
\* attempted and nothing changes for the pair.
C31_SellSize ==
  [][(PairEvaluated
        /\ cycle'.signal.action = "SELL"
        /\ cycle'.signal.confidence >= PairThreshold(cycle'))
       => LET u == cycle'.pair[1]
              t == cycle'.pair[2]
              held == HeldQuantity(u, t)
              size == Min(cycle'.cfgs[u].max_trade_size, held)
          IN /\ UNCHANGED dbVars
             /\ (held > 0 /\ HasPrice(t))
                  => /\ sess'["auto"].pc = "exec_price"
                     /\ sess'["auto"].action = "SELL"
                     /\ sess'["auto"].user = u
                     /\ sess'["auto"].ticker = t
                     /\ sess'["auto"].quantity = size
             /\ held = 0
                  => /\ sess'["auto"].pc = "idle"
                     /\ sess'["auto"].result = "skipped"]_vars

\* a position of 19 shares, fewer than the max_trade_size of 20, was sold
\* whole by the cycle
C31_Witness ==
  /\ Len(trades) = 2
  /\ trades[1].action = "BUY" /\ trades[2].action = "SELL"
  /\ trades[1].user_id = "u1" /\ trades[2].user_id = "u1"
  /\ trades[1].ticker_id = trades[2].ticker_id
  /\ trades[1].quantity < configs["u1"].max_trade_size
  /\ trades[2].quantity = trades[1].quantity
  /\ PositionIds("u1", trades[2].ticker_id) = {}

(* ------------------------ the pairs of one cycle ---------------------- *)
\* the (account, ticker) pairs the cycle c has still to evaluate
RemainingPairs(c) ==
  {<<c.user, c.tq[i]>> : i \in 1..Len(c.tq)}
    \cup {<<c.queue[i], t>> : i \in 1..Len(c.queue), t \in tickers}

\* one step of the cycle keeps the account of the pairs: a started cycle has
\* the whole cross product to evaluate, an evaluation takes exactly its own
\* pair out, nothing else changes what remains, and nothing remains at idle
CycleStepCoversPairs ==
  /\ (cycle.pc = "idle" /\ cycle'.pc # "idle")
       => RemainingPairs(cycle') = EnabledConfigs \X tickers
  /\ PairEvaluated
       => /\ cycle'.pair \in RemainingPairs(cycle)
          /\ RemainingPairs(cycle') = RemainingPairs(cycle) \ {cycle'.pair}
  /\ (cycle.pc # "idle" /\ ~PairEvaluated)
       => RemainingPairs(cycle') = RemainingPairs(cycle)
  /\ cycle'.pc = "idle" => RemainingPairs(cycle') = {}

\* C32: every auto-trading cycle terminates and returns to idle, and before
\* it does it evaluates each (enabled account, ticker) pair of the full
\* cross product exactly once, whatever the pairs produce.
C32_CycleCoversAllPairs ==
  /\ [](cycle.pc # "idle" => <>(cycle.pc = "idle"))
  /\ [][CycleStepCoversPairs]_vars

\* the second cycle over two enabled accounts is about to return, after
\* two trades and every pair
C32_Witness ==
  /\ cycle.pc = "user"
  /\ cycle.queue = <<>>
  /\ DOMAIN cycle.cfgs = Users
  /\ sched.cycles = AutoCycles
  /\ Len(trades) = MaxTrades

(* ----------------------- the points of a backfill --------------------- *)
\* generate_historical_data leaves the time loop of a ticker in this step,
\* and goes on to the next ticker
BackfillCompleted ==
  /\ sched.phase = "backfill"
  /\ sched.loop
  /\ sched'.phase = "backfill"
  /\ ~sched'.loop

\* C33: for a ticker with no points the backfill from start_time to
\* end_time produces exactly floor((end_time - start_time) / interval) + 1
\* price ticks, with the timestamps start_time + k * interval for k = 0, 1,
\* ..., the last of them at or before end_time, and all of them are
\* committed, the final partial batch included.
C33_BackfillPoints ==
  [][BackfillCompleted
       => LET t == BackfillAt
              n == (sched.end_time - StartTime) \div HISTORICAL_INTERVAL_MINUTES + 1
          IN /\ Len(price_ticks'[t]) = n
             /\ Len(price_times'[t]) = n
             /\ \A k \in 0..(n - 1) :
                  price_times'[t][k + 1] = StartTime + k * HISTORICAL_INTERVAL_MINUTES
             /\ price_times'[t][n] <= sched.end_time
             /\ sched'.batch = <<>>]_vars

\* the backfill of the first ticker is over: a full batch and a final
\* partial batch are committed, the last point at end_time
C33_Witness ==
  /\ sched.phase = "backfill"
  /\ ~sched.loop
  /\ sched.idx = 2
  /\ sched.starts = 1
  /\ Len(price_times[TickerOrder[1]]) > BATCH_SIZE
  /\ Len(price_times[TickerOrder[1]]) % BATCH_SIZE # 0
  /\ price_times[TickerOrder[1]][Len(price_times[TickerOrder[1]])] = sched.end_time

(* ----------------------- the batches of a backfill -------------------- *)
\* C34: the backfill commits in bounded batches: a commit adds at most
\* BATCH_SIZE price ticks, and whenever the run is cut the committed
\* points of a ticker are a chronological prefix of the series of the
\* whole run: the points committed before, then the next timestamps of
\* start_time + k * interval, none after end_time; stopping the scheduler
\* changes no point.
C34_BoundedBatches ==
  /\ [][\A t \in TickerSet :
          (sched.phase = "backfill" /\ price_times'[t] # price_times[t])
            => /\ t = BackfillAt
               /\ PrefixOf(price_ticks[t], price_ticks'[t])
               /\ PrefixOf(price_times[t], price_times'[t])
               /\ Len(price_times'[t]) - Len(price_times[t]) <= BATCH_SIZE
               /\ Len(price_ticks'[t]) = Len(price_times'[t])
               /\ \A k \in 1..Len(price_times'[t]) :
                    /\ price_times'[t][k]
                         = StartTime + (k - 1) * HISTORICAL_INTERVAL_MINUTES
                    /\ price_times'[t][k] <= sched.end_time]_vars
  /\ [][(sched.phase = "backfill" /\ sched'.phase # "backfill")
          => UNCHANGED <<price_ticks, price_times>>]_vars

\* in the middle of the run of a ticker: one full batch is committed, the
\* next point is in the unsaved batch
C34_Witness ==
  /\ sched.phase = "backfill"
  /\ sched.loop
  /\ Len(price_times[BackfillAt]) = BATCH_SIZE
  /\ Len(sched.batch) = 1
  /\ sched.batch[1].timestamp
       = price_times[BackfillAt][BATCH_SIZE] + HISTORICAL_INTERVAL_MINUTES

(* ------------------------ an interrupted backfill --------------------- *)
\* generate_historical_data is in the time loop of ticker t
InTimeLoop(t) == sched.phase = "backfill" /\ sched.loop /\ BackfillAt = t

\* C38: if the backfill of a ticker is interrupted after it committed at
\* least one batch, a later backfill run skips the ticker: the series
\* keeps the committed prefix and the missing remainder is never generated
\* by the backfill; only later ticks extend the series.
C38_InterruptedBackfillSkipped ==
  /\ [][\A t \in TickerSet :
          (HasPrice(t) /\ ~InTimeLoop(t))
            => /\ ~InTimeLoop(t)'
               /\ PrefixOf(price_ticks[t], price_ticks'[t])
               /\ PrefixOf(price_times[t], price_times'[t])
               /\ price_times'[t] # price_times[t]
                    => /\ TickCommitted
                       /\ price_times'[t] = Append(price_times[t], sched'.now)
                       /\ price_times[t][Len(price_times[t])] < sched'.now]_vars
  /\ [][\A t \in TickerSet :
          (InTimeLoop(t) /\ sched'.phase = "boot"
             /\ StartTime + HISTORICAL_INTERVAL_MINUTES * Len(price_times[t])
                   <= sched.end_time)
            => /\ UNCHANGED <<price_ticks, price_times>>
               /\ sched'.batch = <<>>]_vars

\* the scheduler was stopped after the first batch of TSLA and started
\* again: its second backfill is over, TSLA has the one batch and a tick,
\* NVDA the whole history of the second run
C38_Witness ==
  /\ sched.starts = 2
  /\ sched.phase = "running"
  /\ sched.ticks = 1
  /\ BATCH_SIZE < HistPoints
  /\ Len(price_times["TSLA"]) = BATCH_SIZE + 1
  /\ price_times["TSLA"][BATCH_SIZE + 1] = sched.now
  /\ price_times["TSLA"][BATCH_SIZE]
       < price_times["TSLA"][1] + HistSpan
  /\ Len(price_times["NVDA"]) = HistPoints + 1
  /\ price_times["NVDA"][1] = price_times["TSLA"][1] + 1

(* -------------------- the steps of the rule-based fallback ------------ *)
\* C35: in the rule-based fallback the confidence never decreases as the
\* confirmation rules are applied and stays within [0, 1] at every step,
\* and a confirmation rule never changes the action chosen from the RSI;
\* in particular a HOLD is never upgraded and keeps the confidence 0.50.
C35_ConfirmationsOnlyRaise ==
  FromFallback =>
    LET indicators == cycle.indicators
        base == BaseDecision(indicators.rsi_14)
        macd == MacdConfirmation(base, indicators.macd_histogram)
        final == MovingAverageCrossover(macd, indicators.sma_20,
                                        indicators.sma_50)
    IN /\ cycle.prediction = final
       /\ base.confidence <= macd.confidence
       /\ macd.confidence <= final.confidence
       /\ \A step \in {base, macd, final} : step.confidence \in 0..100
       /\ macd.action = base.action
       /\ final.action = base.action
       /\ base.action = "HOLD"
            => /\ cycle.prediction.action = "HOLD"
               /\ cycle.prediction.confidence = 50

\* an RSI of 50 with a positive MACD histogram and SMA(20) above SMA(50):
\* the fallback answered HOLD at 0.50, with the one clause of the RSI
C35_Witness ==
  /\ FromFallback
  /\ cycle.indicators.rsi_14 = Float(<<50, 1>>)
  /\ cycle.indicators.macd_histogram = Float(<<1, 2>>)
  /\ cycle.indicators.sma_20 = Float(<<11000, 1>>)
  /\ cycle.indicators.sma_50 = Float(<<10000, 1>>)
  /\ cycle.prediction.action = "HOLD"
  /\ cycle.prediction.confidence = 50
  /\ Len(cycle.prediction.reason) = 1

(* ------------------ the price of an auto-trade BUY -------------------- *)
\* execute_buy, called by the cycle, reads the latest price in this step
AutoBuyPriced ==
  /\ sess["auto"].pc = "exec_price"
  /\ sess["auto"].action = "BUY"
  /\ sess'["auto"].pc = "buy_account"

\* execute_buy, called by the cycle, checks the funds in this step
AutoBuyChecked ==
  /\ sess["auto"].pc = "buy_account"
  /\ sess'["auto"].pc # "buy_account"

\* C36: when the price-tick job runs concurrently with an auto-trading
\* cycle, the price at which an auto-trade BUY executes equals the latest
\* price the cycle used to size it, so a sized auto-trade BUY is never
\* rejected for insufficient funds and never costs more than the cash
\* balance used for sizing.
C36_BuyAtSizingPrice ==
  [][/\ AutoBuyPriced => sess'["auto"].price = cycle.current_price
     /\ AutoBuyChecked
          => /\ sess'["auto"].result # "InsufficientFunds"
             /\ sess["auto"].price * sess["auto"].quantity
                  <= sess["auto"].acct.cash]_vars

(* ------------------- the orders of a cycle left alone ----------------- *)
\* the trades of one account, in commit order
TradesOf(u) == SelectSeq(trades, LAMBDA tr : tr.user_id = u)

\* the total_amount of the trades i..j of a log that have the action
RECURSIVE TotalAmount(_, _, _, _)
TotalAmount(log, i, j, action) ==
  IF i > j THEN 0
  ELSE (IF log[j].action = action THEN log[j].total_amount ELSE 0)
         + TotalAmount(log, i, j - 1, action)

\* the cash balance a trade found
CashBefore(tr) ==
  IF tr.action = "BUY" THEN tr.cash_after + tr.total_amount
  ELSE tr.cash_after - tr.total_amount

\* execute_sell, called by the cycle, checks the shares in this step
AutoSellChecked ==
  /\ sess["auto"].pc = "sell_portfolio"
  /\ sess'["auto"].pc # "sell_portfolio"

\* an order of the cycle that reaches a validation fits the cash balance or
\* the position of that moment, and passes
AutoOrderPasses ==
  /\ AutoBuyChecked
       => /\ sess["auto"].price * sess["auto"].quantity
               <= accounts[sess["auto"].user]
          /\ sess'["auto"].pc = "buy_portfolio"
  /\ AutoSellChecked
       => /\ sess["auto"].quantity
               <= HeldQuantity(sess["auto"].user, sess["auto"].ticker)
          /\ sess'["auto"].pc = "sell_account"

====
